---- MODULE Spec2Model ----
(***************************************************************************)
(* Inventory discovery and reconciliation of mission-control-backend.      *)
(*                                                                         *)
(* A reconciliation cycle is started by the interval timer of startServer  *)
(* (src/index.ts) or by POST /inventory/sync (src/api/routes/inventory.ts).*)
(* It asks the Kubernetes and the Proxmox connector for their inventory    *)
(* with Promise.all, concatenates the two answers and hands the merged     *)
(* snapshot to the reconcile of db/inventory.  Both callers name it        *)
(* syncDiscoveredInventory; the db/inventory of the source tree            *)
(* (src/unnamed/part_007) has the reconcile as the body of                 *)
(* refreshInventory, lines 324-353, and that body is what is modelled:     *)
(* inside db.transaction it looks every entity up by id and calls          *)
(* updateHost/createHost (updateWorkload/createWorkload).  The helpers run *)
(* their statements with db.queryOne, that is on the pool                  *)
(* (src/db/client.ts:96), not on the transaction's client, so every        *)
(* statement is committed on its own.  The INSERT of createHost and        *)
(* createWorkload has no id column: the store assigns the id of a new row. *)
(*                                                                         *)
(* The store is a database that outlives the process: it may already hold  *)
(* rows when the process starts (Seeded).                                  *)
(*                                                                         *)
(* Rows carry three fields that are no columns and that only the           *)
(* properties read: key, the discovered id the row was inserted for; born, *)
(* the cycle that inserted it (0: before this run); by, the cycle that     *)
(* wrote it last.  A cycle's field solo says that no other cycle was       *)
(* running while it ran.                                                   *)
(*                                                                         *)
(* In the cycles a discoverAll call is one step that resolves or rejects.  *)
(* What happens inside is followed in specifications of their own:         *)
(* KubernetesConnector.discoverAll request by request (k8sCall),           *)
(* ProxmoxConnector.discoverAll node by node (pveCall), and                *)
(* DatabaseClient.transaction statement by statement (txCall).             *)
(*                                                                         *)
(* Beside the cycles stand the migration runner of db:migrate with the     *)
(* schema it changes (mig, src/unnamed/part_006), the DatabaseClient and   *)
(* its pool (db, src/db/client.ts), the lookup of one host or workload by  *)
(* id (lookup, src/api/routes/inventory.ts) and the start and the graceful *)
(* shutdown of the server (sd, src/index.ts).                              *)
(***************************************************************************)
EXTENDS Integers, Sequences, FiniteSets, TLC

(* ----------------------------- bounds ---------------------------------- *)

\* reconciliation cycles (timer ticks plus sync requests) of one run
MaxCycles == 2

Cycles == 1..MaxCycles

(* --------------------------- canonical model --------------------------- *)

\* the two observations a source can make of an entity: every field of "b"
\* differs from the field of "a"
Versions == {"a", "b"}

\* ids the store generates for inserted rows (no id column in the INSERT)
GeneratedIds ==
  <<"g1", "g2", "g3", "g4", "g5", "g6", "g7", "g8", "g9", "g10", "g11", "g12",
    "g13", "g14", "g15", "g16">>

\* a Host as the connectors produce it (convertNodeToHost): id from the source,
\* last_seen_at the time of discovery
DiscoveredHost(id, ver, t) ==
  [ id           |-> id,
    name         |-> IF ver = "a" THEN "node-a" ELSE "node-b",
    type         |-> IF ver = "a" THEN "k8s-node" ELSE "proxmox-node",
    cluster      |-> IF ver = "a" THEN "ctx-a" ELSE "ctx-b",
    addresses    |-> IF ver = "a" THEN "10.0.0.1" ELSE "10.0.0.2",
    status       |-> IF ver = "a" THEN "online" ELSE "offline",
    last_seen_at |-> t,
    tags         |-> IF ver = "a" THEN {"ta"} ELSE {"tb"},
    metadata     |-> IF ver = "a" THEN "meta-a" ELSE "meta-b" ]

\* a Workload as the connectors produce it (convertDeploymentToWorkload, ...)
DiscoveredWorkload(id, ver, t) ==
  [ id              |-> id,
    name            |-> IF ver = "a" THEN "wl-a" ELSE "wl-b",
    type            |-> IF ver = "a" THEN "k8s-deployment" ELSE "k8s-pod",
    host_id         |-> IF ver = "a" THEN "none" ELSE "h1",
    status          |-> IF ver = "a" THEN "running" ELSE "stopped",
    namespace       |-> IF ver = "a" THEN "ns-a" ELSE "ns-b",
    spec            |-> IF ver = "a" THEN "spec-a" ELSE "spec-b",
    health_status   |-> IF ver = "a" THEN "healthy" ELSE "unhealthy",
    last_updated_at |-> t,
    metadata        |-> IF ver = "a" THEN "meta-a" ELSE "meta-b" ]

EmptyInventory == [hosts |-> <<>>, workloads |-> <<>>]

\* what KubernetesConnector.discoverAll can answer: nothing, or node h1 and
\* workload w1 in one of their two observations
K8sInventories ==
  {EmptyInventory} \cup
  { [hosts |-> <<[id |-> "h1", ver |-> v]>>, workloads |-> <<[id |-> "w1", ver |-> v]>>]
      : v \in Versions }

\* what ProxmoxConnector.discoverAll can answer: nothing, or node h2 and VM w2
ProxmoxInventories ==
  {EmptyInventory} \cup
  { [hosts |-> <<[id |-> "h2", ver |-> "a"]>>, workloads |-> <<[id |-> "w2", ver |-> "a"]>>] }

\* larger answers of the Kubernetes connector: two nodes and three workloads, or
\* node h1 and workload w1 in their second observation
K8sScenarios ==
  { [ hosts     |-> <<[id |-> "h1", ver |-> "a"], [id |-> "h3", ver |-> "a"]>>,
      workloads |-> <<[id |-> "w1", ver |-> "a"], [id |-> "w3", ver |-> "a"],
                      [id |-> "w4", ver |-> "a"]>> ],
    [ hosts     |-> <<[id |-> "h1", ver |-> "b"]>>,
      workloads |-> <<[id |-> "w1", ver |-> "b"]>> ] }

\* larger answers of the Proxmox connector: one node and two guests, or a node
\* and a guest under the ids the Kubernetes connector reports too (nothing in
\* either connector looks at the ids of the other)
ProxmoxScenarios ==
  { [ hosts     |-> <<[id |-> "h2", ver |-> "a"]>>,
      workloads |-> <<[id |-> "w2", ver |-> "a"], [id |-> "w5", ver |-> "a"]>> ],
    [ hosts     |-> <<[id |-> "h1", ver |-> "a"]>>,
      workloads |-> <<[id |-> "w1", ver |-> "a"]>> ] }

\* a merge that drops what Proxmox reports under an id Kubernetes has reported
Merge_deduplicated(k8sInventory, proxmoxInventory) ==
  LET NewHost(e) == \A j \in 1..Len(k8sInventory.hosts) : k8sInventory.hosts[j].id # e.id
      NewWorkload(e) ==
        \A j \in 1..Len(k8sInventory.workloads) : k8sInventory.workloads[j].id # e.id
  IN  [ hosts     |-> k8sInventory.hosts \o SelectSeq(proxmoxInventory.hosts, NewHost),
        workloads |-> k8sInventory.workloads
                        \o SelectSeq(proxmoxInventory.workloads, NewWorkload) ]

\* the merged snapshot: plain concatenation, Kubernetes first
Merge(k8sInventory, proxmoxInventory) ==
  [ hosts     |-> k8sInventory.hosts \o proxmoxInventory.hosts,
    workloads |-> k8sInventory.workloads \o proxmoxInventory.workloads ]

(* ------------------------------- state --------------------------------- *)

\* db.transaction calls in one run
MaxTransactions == 2

\* the callbacks db.transaction is called with: the one of testConnection issues
\* its statement on the client it is given, the one of refreshInventory issues
\* its statements through the pool and none on the client
Callbacks == {"testConnection", "refreshInventory"}

\* db.transaction not yet called: sent are the statements issued on the client,
\* failed the step that has rejected, rollback how ROLLBACK has ended, thrown
\* the error the call rejects with, outcomes how the earlier calls have ended,
\* events what has been done with the client: its statements and its release
TxIdle ==
  [ pc       |-> "idle",
    calls    |-> 0,
    callback |-> "none",
    client   |-> "none",
    sent     |-> <<>>,
    failed   |-> "none",
    rollback |-> "none",
    result   |-> "none",
    thrown   |-> "none",
    outcomes |-> <<>>,
    events   |-> <<>> ]

VARIABLES
  hosts,            \* table hosts: the committed rows
  workloads,        \* table workloads: the committed rows
  cyc,              \* the reconciliation cycles of this run, by number
  started,          \* how many cycles have been started
  now,              \* the clock NOW() and new Date() read
  nextId,           \* how many ids the store has generated
  rd,               \* one GET /inventory request
  proc,             \* the process: its interval timer and whether it runs
  syncIntervalMs,   \* INVENTORY_SYNC_INTERVAL_MS
  proxmoxConnector, \* app.locals.proxmoxConnector is set
  k8sCall,          \* one call of KubernetesConnector.discoverAll
  pveCall,          \* the calls of ProxmoxConnector.discoverAll
  txCall,           \* the calls of DatabaseClient.transaction
  mig,              \* the migrate() runs of db:migrate and the schema they change
  db,               \* the DatabaseClient: its pool and the calls made on it
  lookup,           \* one GET /inventory/hosts/:id or /inventory/workloads/:id
  sd                \* the HTTP server and gracefulShutdown

\* the calls into the connectors and into the database client that are
\* followed step by step
calls == <<k8sCall, pveCall, txCall>>

\* the scheduler, the reconciler and the store
reconciler ==
  <<hosts, workloads, cyc, started, now, nextId, rd, proc, syncIntervalMs,
    proxmoxConnector>>

\* what lives beside the cycles: the migration runner, the database client,
\* the lookup of one entity and the shutdown
lifecycle == <<mig, db, lookup, sd>>

vars ==
  <<hosts, workloads, cyc, started, now, nextId, rd, proc, syncIntervalMs,
    proxmoxConnector, k8sCall, pveCall, txCall, mig, db, lookup, sd>>

(* -------------------- the cluster the Kubernetes connector sees -------- *)

\* the namespaces listNamespace answers
ClusterNamespaces == <<"default", "kube-public", "apps">>

excludedNamespaces == {"kube-node-lease", "kube-public"}

\* discoverNamespaces: the names without the excluded and the empty ones
discoverNamespaces(listed) ==
  LET Kept(name) == name \notin excludedNamespaces /\ name # ""
  IN  SelectSeq(listed, Kept)

\* the three lists discoverAll gathers over the namespaces
WorkloadKinds == {"k8s-deployment", "k8s-statefulset", "k8s-pod"}

\* the objects of a kind the API lists in a namespace: one in each
ClusterItems(kind, namespace) ==
  <<[uid |-> kind \o "/" \o namespace, name |-> "web"]>>

\* convertDeploymentToWorkload, convertStatefulSetToWorkload, convertPodToWorkload
convertToWorkload(kind, item, namespace) ==
  [ id            |-> item.uid,
    name          |-> item.name,
    type          |-> kind,
    namespace     |-> namespace,
    health_status |-> "unknown" ]

\* what checkDeploymentHealth and checkPodHealth can answer (unknown also when
\* the read fails); a statefulset is not checked
HealthOutcomes(type) ==
  IF type = "k8s-statefulset" THEN {"unknown"} ELSE {"healthy", "unhealthy", "unknown"}

\* discoverAll not yet called
K8sIdle ==
  [ pc     |-> "idle",
    nodes  |-> "pending",
    hosts  |-> <<>>,
    lists  |-> [ kind \in WorkloadKinds |->
                   [ pc |-> "namespaces", namespaces |-> <<>>, i |-> 1, items |-> <<>>,
                     failed |-> {} ] ],
    cause  |-> "none",
    result |-> EmptyInventory ]

(* -------------------- the cluster the Proxmox connector sees ----------- *)

\* discoverAll calls of the Proxmox connector in one run
MaxDiscoveries == 2

\* this.cluster: options.cluster, else the host name of PROXMOX_HOST
Clusters == {"homelab", "pve.lan"}

\* the nodes GET /nodes answers, the VMs GET /nodes/{node}/qemu answers and the
\* containers GET /nodes/{node}/lxc answers, by vmid
ProxmoxNodes == <<"pve1", "pve2">>

NodeVMs(node) == IF node = "pve1" THEN <<100>> ELSE <<101>>

NodeLXCs(node) == IF node = "pve1" THEN <<200>> ELSE <<>>

\* a node, a VM and a container as the API shows them in their two
\* observations: name, status and resource figures all differ
RawNode(name, ver) ==
  [ node   |-> name,
    status |-> IF ver = "a" THEN "online" ELSE "offline",
    mem    |-> IF ver = "a" THEN 1024 ELSE 2048 ]

RawGuest(vmid, ver) ==
  [ vmid   |-> vmid,
    name   |-> IF ver = "a" THEN "web" ELSE "",
    status |-> IF ver = "a" THEN "running" ELSE "stopped",
    mem    |-> IF ver = "a" THEN 512 ELSE 256 ]

\* one part of a network line, as split(',') and split('=') cut it: the key
\* and the value, the value as split('/') cuts it (<<>>: the part has no '=' or
\* nothing after it)
Part(key, value) == [key |-> key, value |-> value]

\* getLXCConfig answering null, as it does when its request fails
NullConfig == [found |-> FALSE, entries |-> <<>>]

\* what getLXCConfig can answer: null; a config with no key; and configs with
\* the keys and lines
\*   net0: name=eth0,bridge=vmbr0,ip=192.168.1.100/24,gw=192.168.1.1
\*   net0: name=eth0,ip=192.168.1.101/24  net1: name=eth1,ip=DHCP
\*     net2: name=eth2,ip=10.0.0.5  hostname: web
\*   net0: name=eth0,ip=dhcp  net1: name=eth1,ip=10.0.0.7/8
\*   net0: name=eth0,bridge
LXCConfigs ==
  { NullConfig,
    [found |-> TRUE, entries |-> <<>>],
    [ found |-> TRUE,
      entries |->
        << [ key |-> "net0",
             line |-> << Part("name", <<"eth0">>), Part("bridge", <<"vmbr0">>),
                         Part("ip", <<"192.168.1.100", "24">>),
                         Part("gw", <<"192.168.1.1">>) >> ] >> ],
    [ found |-> TRUE,
      entries |->
        << [ key |-> "net0",
             line |-> <<Part("name", <<"eth0">>), Part("ip", <<"192.168.1.101", "24">>)>> ],
           [ key |-> "net1",
             line |-> <<Part("name", <<"eth1">>), Part("ip", <<"DHCP">>)>> ],
           [ key |-> "net2",
             line |-> <<Part("name", <<"eth2">>), Part("ip", <<"10.0.0.5">>)>> ],
           [ key |-> "hostname", line |-> <<Part("web", <<>>)>> ] >> ],
    [ found |-> TRUE,
      entries |->
        << [ key |-> "net0",
             line |-> <<Part("name", <<"eth0">>), Part("ip", <<"dhcp">>)>> ],
           [ key |-> "net1",
             line |-> <<Part("name", <<"eth1">>), Part("ip", <<"10.0.0.7", "8">>)>> ] >> ],
    [ found |-> TRUE,
      entries |->
        << [ key |-> "net0",
             line |-> <<Part("name", <<"eth0">>), Part("bridge", <<>>)>> ] >> ] }

\* getDeterministicId: the first 16 bytes of the SHA-1 digest of the seed with
\* the version and variant bits set, printed as a UUID.  The digest is kept as
\* a term over its input: equal seeds give equal ids, different seeds
\* different ids.
getDeterministicId(seed) == "uuid5(sha1(" \o seed \o "))"

getHostId(cluster, nodeName) ==
  getDeterministicId("proxmox-node:" \o cluster \o ":" \o nodeName)

getWorkloadId(seed) == getDeterministicId(seed)

mapNodeStatus(status) ==
  IF status = "online" THEN "online"
  ELSE IF status = "offline" THEN "offline"
  ELSE "unknown"

mapWorkloadStatus(status) ==
  IF status = "running" THEN "running"
  ELSE IF status \in {"stopped", "paused", "suspended"} THEN "stopped"
  ELSE "unknown"

\* the keys of a config that match /^net\d+$/
NetKeys == {"net0", "net1", "net2"}

\* String.prototype.toLowerCase on the values an ip part carries
toLowerCase(text) == IF text \in {"DHCP", "Dhcp", "dhcp"} THEN "dhcp" ELSE text

\* configMap['ip'] of a network line: the value of the last part with key ip
\* and a value, <<>> when there is none
ipOf(line) ==
  LET found == SelectSeq(line, LAMBDA part : part.key = "ip" /\ part.value # <<>>)
  IN  IF found = <<>> THEN <<>> ELSE found[Len(found)].value

\* a parse that compares ip with 'dhcp' as it is written
parseNetworkAddresses_caseSensitive(config) ==
  IF ~config.found THEN {}
  ELSE
    LET Static(e) ==
          /\ e.key \in NetKeys
          /\ ipOf(e.line) # <<>>
          /\ ~(Len(ipOf(e.line)) = 1 /\ ipOf(e.line)[1] = "dhcp")
        nets == SelectSeq(config.entries, Static)
    IN  { <<IF nets[j].key = "net0" THEN "lan" ELSE nets[j].key, ipOf(nets[j].line)[1]>> :
            j \in 1..Len(nets) }

\* parseNetworkAddresses, as the set of the entries of the map it returns:
\* nothing without a config; for every key netN whose line has an ip that is
\* not dhcp in any case, the ip up to its first '/', under lan for net0 and
\* under the key for the others
parseNetworkAddresses(config) ==
  IF ~config.found THEN {}
  ELSE
    LET Static(e) ==
          /\ e.key \in NetKeys
          /\ ipOf(e.line) # <<>>
          /\ ~(Len(ipOf(e.line)) = 1 /\ toLowerCase(ipOf(e.line)[1]) = "dhcp")
        nets == SelectSeq(config.entries, Static)
    IN  { <<IF nets[j].key = "net0" THEN "lan" ELSE nets[j].key, ipOf(nets[j].line)[1]>> :
            j \in 1..Len(nets) }

\* a conversion that takes the id of the host from the node name alone
convertProxmoxNodeToHost_unclustered(cluster, node) ==
  [ id       |-> getDeterministicId("proxmox-node:" \o node.node),
    name     |-> node.node,
    type     |-> "proxmox-node",
    cluster  |-> cluster,
    status   |-> mapNodeStatus(node.status),
    metadata |-> [mem |-> node.mem] ]

convertProxmoxNodeToHost(cluster, node) ==
  [ id       |-> getHostId(cluster, node.node),
    name     |-> node.node,
    type     |-> "proxmox-node",
    cluster  |-> cluster,
    status   |-> mapNodeStatus(node.status),
    metadata |-> [mem |-> node.mem] ]

\* a conversion that seeds the id with the VM's name
convertVMToWorkload_nameSeeded(vm, node, hostId) ==
  [ id            |-> getWorkloadId("proxmox-vm:" \o node \o ":" \o vm.name),
    name          |-> IF vm.name # "" THEN vm.name ELSE "vm-" \o ToString(vm.vmid),
    type          |-> "proxmox-vm",
    host_id       |-> hostId,
    status        |-> mapWorkloadStatus(vm.status),
    namespace     |-> node,
    spec          |-> [vmid |-> vm.vmid, node |-> node, mem |-> vm.mem],
    health_status |-> IF vm.status = "running" THEN "healthy" ELSE "unknown" ]

convertVMToWorkload(vm, node, hostId) ==
  [ id            |-> getWorkloadId("proxmox-vm:" \o node \o ":" \o ToString(vm.vmid)),
    name          |-> IF vm.name # "" THEN vm.name ELSE "vm-" \o ToString(vm.vmid),
    type          |-> "proxmox-vm",
    host_id       |-> hostId,
    status        |-> mapWorkloadStatus(vm.status),
    namespace     |-> node,
    spec          |-> [vmid |-> vm.vmid, node |-> node, mem |-> vm.mem],
    health_status |-> IF vm.status = "running" THEN "healthy" ELSE "unknown" ]

convertLXCToWorkload(lxc, node, hostId, config) ==
  [ id            |-> getWorkloadId("proxmox-lxc:" \o node \o ":" \o ToString(lxc.vmid)),
    name          |-> IF lxc.name # "" THEN lxc.name ELSE "lxc-" \o ToString(lxc.vmid),
    type          |-> "proxmox-lxc",
    host_id       |-> hostId,
    status        |-> mapWorkloadStatus(lxc.status),
    namespace     |-> node,
    spec          |-> [ vmid |-> lxc.vmid, node |-> node, mem |-> lxc.mem,
                        addresses |-> parseNetworkAddresses(config) ],
    health_status |-> IF lxc.status = "running" THEN "healthy" ELSE "unknown" ]

\* discoverAll not yet called
PveIdle ==
  [ pc        |-> "idle",
    calls     |-> 0,
    cluster   |-> "",
    nodes     |-> <<>>,
    i         |-> 1,
    vms       |-> <<>>,
    lxcs      |-> <<>>,
    hosts     |-> <<>>,
    workloads |-> <<>>,
    cause     |-> "none",
    result    |-> EmptyInventory,
    previous  |-> EmptyInventory,
    requested |-> <<>> ]

(* -------------------- the migrations directory and the schema ---------- *)

\* migrate() runs of db:migrate, one after the other
MaxMigrations == 3

\* a name readdirSync answers: the digits it starts with, what stands between
\* the underscore after them and the extension, and the extension
Entry(digits, name, ext) == [digits |-> digits, name |-> name, ext |-> ext]

\* the listings of migrationsDir as sort() leaves them: two migrations and a
\* note; or three migrations of which two carry version 2 (002_ and 2_) and a
\* schema.sql that has no version
Directories ==
  { << Entry(<<0, 0, 1>>, "initial_schema", "sql"),
       Entry(<<0, 0, 2>>, "add_restart_count", "sql"),
       Entry(<<>>, "README", "md") >>,
    << Entry(<<0, 0, 1>>, "initial_schema", "sql"),
       Entry(<<0, 0, 2>>, "add_labels", "sql"),
       Entry(<<2>>, "add_restart_count", "sql"),
       Entry(<<>>, "schema", "sql") >> }

\* parseInt(match[1], 10)
RECURSIVE parseInt(_)
parseInt(digits) ==
  IF digits = <<>> THEN 0
  ELSE 10 * parseInt(SubSeq(digits, 1, Len(digits) - 1)) + digits[Len(digits)]

\* loadMigrationFiles: the names ending in .sql that match /^(\d+)_(.+)\.sql$/,
\* in the order of the listing, each with its version and its name
loadMigrationFiles(listing) ==
  LET Matches(e) == e.ext = "sql" /\ e.digits # <<>> /\ e.name # ""
      files == SelectSeq(listing, Matches)
  IN  [j \in 1..Len(files) |->
         [version |-> parseInt(files[j].digits), name |-> files[j].name, file |-> files[j]]]

\* getAppliedMigrations: new Set of the versions of the rows of schema_migrations
getAppliedMigrations(rows) == {r.version : r \in rows}

\* a filter that keeps every migration
pendingMigrations_all(allMigrations, appliedMigrations) == allMigrations

\* allMigrations.filter((m) => !appliedMigrations.has(m.version))
pendingMigrations(allMigrations, appliedMigrations) ==
  LET Pending(m) == m.version \notin appliedMigrations
  IN  SelectSeq(allMigrations, Pending)

\* the row applyMigration inserts for a migration
MigrationRow(m) == [version |-> m.version, name |-> m.name]

\* the row init inserts
InitialSchemaRow == [version |-> 0, name |-> "initial_schema"]

\* a statement that is committed at once, as one sent through the pool is
onClient_autocommit(m, files, rows) ==
  [m EXCEPT !.schema = @ \cup files, !.schema_migrations = @ \cup rows]

\* a statement sent on the client of db.transaction after BEGIN: what it
\* changes stays with the client's transaction
onClient(m, files, rows) ==
  [m EXCEPT !.staged = [schema |-> @.schema \cup files, rows |-> @.rows \cup rows]]

NothingStaged == [schema |-> {}, rows |-> {}]

\* migrate() not yet called.  schema: the migration files whose changes are
\* committed; schema_migrations: the committed rows of the table; staged: the
\* changes of the open transaction; commits: the versions of the migrations
\* committed, in the order of their commits; applied: the migrations this run
\* has applied; previous: how the run before has ended
MigIdle ==
  [ pc                |-> "idle",
    runs              |-> 0,
    listing           |-> <<>>,
    schema            |-> {},
    schema_migrations |-> {},
    staged            |-> NothingStaged,
    commits           |-> <<>>,
    appliedMigrations |-> {},
    pending           |-> <<>>,
    i                 |-> 1,
    applied           |-> <<>>,
    failedAt          |-> "none",
    previous          |-> "none" ]

\* SIGTERM and SIGINT signals a process receives
MaxSignals == 2

(* --------------------------- DatabaseClient ---------------------------- *)

\* calls of connect, query, getClient and disconnect in one run
MaxClientCalls == 4

\* new DatabaseClient(config): pool is null.  pc: the await a call stands at;
\* history: the calls that have ended, each with how it ended; leaked: the
\* clients taken from the pool and never released
DbNew ==
  [ pool    |-> "null",
    pc      |-> "idle",
    calls   |-> 0,
    history |-> <<>>,
    leaked  |-> 0 ]

(* ----------------------- ids as the routes read them ------------------- *)

\* the digits Buffer.toString('hex') prints
HexDigits ==
  <<"0", "1", "2", "3", "4", "5", "6", "7", "8", "9", "a", "b", "c", "d", "e", "f">>

\* the two digits of a byte in bytes.toString('hex')
toHex(byte) == <<HexDigits[(byte \div 16) + 1], HexDigits[(byte % 16) + 1]>>

\* the id getDeterministicId prints for a seed whose SHA-1 digest has byte6 and
\* byte8 at offsets 6 and 8: bytes[6] = (bytes[6] & 0x0f) | 0x50 and
\* bytes[8] = (bytes[8] & 0x3f) | 0x80, then the five groups of hex digits.
\* Of the groups, the first two digits of the third (hex 12-13) and of the
\* fourth (hex 16-17) are kept; every other digit is a hex digit whatever the
\* digest is.
deterministicUuid(seed, byte6, byte8) ==
  [ of     |-> getDeterministicId(seed),
    group3 |-> toHex((byte6 % 16) + 80),
    group4 |-> toHex((byte8 % 64) + 128) ]

\* an id of any other origin with the same two bytes, printed as they are
plainUuid(byte6, byte8) ==
  [of |-> "request", group3 |-> toHex(byte6), group4 |-> toHex(byte8)]

\* isValidUUID: /^[0-9a-f]{8}-[0-9a-f]{4}-4[0-9a-f]{3}-[89ab][0-9a-f]{3}-[0-9a-f]{12}$/i
isValidUUID(uuid) ==
  /\ uuid.group3[1] = "4"
  /\ uuid.group4[1] \in {"8", "9", "a", "b"}

\* no lookup yet
LookupIdle ==
  [pc |-> "idle", route |-> "none", origin |-> "none", id |-> plainUuid(0, 0), res |-> "none"]

ZeroStats ==
  [hostsAdded |-> 0, hostsUpdated |-> 0, workloadsAdded |-> 0, workloadsUpdated |-> 0]

\* a cycle that has not been started
NoCycle ==
  [ pc       |-> "idle",
    origin   |-> "none",
    k8s      |-> "none",
    pve      |-> "none",
    k8sInv   |-> EmptyInventory,
    pveInv   |-> EmptyInventory,
    merged   |-> EmptyInventory,
    at       |-> 0,
    i        |-> 1,
    existing |-> "unknown",
    stats    |-> ZeroStats,
    cause    |-> "none",
    client   |-> "none",
    tx       |-> "none",
    res      |-> "none",
    solo     |-> TRUE ]

Running(c) == cyc[c].pc \notin {"idle", "done", "failed"}

\* rows an earlier writer left in the store under the ids the sources report
Seeded ==
  [ hosts |->
      { DiscoveredHost("h1", "a", 0) @@
          [created_at |-> 0, updated_at |-> 0, key |-> "h1", born |-> 0, by |-> 0] },
    workloads |->
      { DiscoveredWorkload("w1", "a", 0) @@
          [created_at |-> 0, updated_at |-> 0, key |-> "w1", born |-> 0, by |-> 0] } ]

\* INVENTORY_SYNC_INTERVAL_MS as startServer reads it: Number(env || 60000)
SyncIntervals == {-1000, 0, 60000}

\* if (syncIntervalMs >= 0) setInterval(...): an interval of zero arms the timer
ArmsTimer_nonNegative(intervalMs) == intervalMs >= 0

\* if (syncIntervalMs > 0) setInterval(...)
ArmsTimer(intervalMs) == intervalMs > 0

Init ==
  /\ \E seeded \in BOOLEAN :
       /\ hosts = IF seeded THEN Seeded.hosts ELSE {}
       /\ workloads = IF seeded THEN Seeded.workloads ELSE {}
  /\ cyc = [c \in Cycles |-> NoCycle]
  /\ started = 0
  /\ now = 0
  /\ nextId = 0
  /\ rd = [pc |-> "idle", hosts |-> {}, workloads |-> {}, gotHosts |-> FALSE,
           gotWorkloads |-> FALSE, res |-> "none"]
  /\ syncIntervalMs \in SyncIntervals
  /\ proxmoxConnector \in BOOLEAN
  /\ proc = [timerArmed |-> ArmsTimer(syncIntervalMs), alive |-> TRUE]
  /\ k8sCall = K8sIdle
  /\ pveCall = PveIdle
  /\ txCall = TxIdle
  /\ mig = MigIdle
  /\ db = DbNew
  /\ lookup = LookupIdle
  /\ sd = [ server    |-> "unset",
            signals   |-> 0,
            at        |-> 0,
            callbacks |-> [k \in 1..MaxSignals |-> "none"],
            timers    |-> 0,
            exit      |-> "none",
            events    |-> <<>> ]

(* --------------------------- store statements -------------------------- *)

\* getHostById / getWorkloadById: SELECT * FROM t WHERE id = $1, first row or null
getById(rows, id) == \E r \in rows : r.id = id

\* createHost: INSERT INTO hosts (name, type, cluster, addresses, status,
\* last_seen_at, tags, metadata): the id of the discovered host is no column of
\* the statement, the row gets the id the store generates (gid); created_at and
\* updated_at are the store's NOW()
createHost(rows, host, gid, t, c) ==
  rows \cup
    { [ id           |-> gid,
        name         |-> host.name,
        type         |-> host.type,
        cluster      |-> host.cluster,
        addresses    |-> host.addresses,
        status       |-> host.status,
        last_seen_at |-> host.last_seen_at,
        tags         |-> host.tags,
        metadata     |-> host.metadata,
        created_at   |-> t,
        updated_at   |-> t,
        key          |-> host.id,
        born         |-> c,
        by           |-> c ] }

\* the row UPDATE hosts SET ... WHERE id = $1 leaves for a row it matches: name,
\* status, last_seen_at, addresses, metadata, tags and updated_at = NOW()
updatedHostRow(r, updates, t, c) ==
  [ r EXCEPT !.name = updates.name,
             !.status = updates.status,
             !.last_seen_at = updates.last_seen_at,
             !.addresses = updates.addresses,
             !.metadata = updates.metadata,
             !.tags = updates.tags,
             !.updated_at = t,
             !.by = c ]

\* updateHost with the WHERE clause lost: every row is updated
updateHost_everyRow(rows, id, updates, t, c) ==
  { updatedHostRow(r, updates, t, c) : r \in rows }

updateHost(rows, id, updates, t, c) ==
  { IF r.id = id THEN updatedHostRow(r, updates, t, c) ELSE r : r \in rows }

\* createWorkload: INSERT INTO workloads (name, type, host_id, status, namespace,
\* spec, health_status, last_updated_at, metadata), again without the id
createWorkload(rows, workload, gid, t, c) ==
  rows \cup
    { [ id              |-> gid,
        name            |-> workload.name,
        type            |-> workload.type,
        host_id         |-> workload.host_id,
        status          |-> workload.status,
        namespace       |-> workload.namespace,
        spec            |-> workload.spec,
        health_status   |-> workload.health_status,
        last_updated_at |-> workload.last_updated_at,
        metadata        |-> workload.metadata,
        created_at      |-> t,
        updated_at      |-> t,
        key             |-> workload.id,
        born            |-> c,
        by              |-> c ] }

\* the row UPDATE workloads SET ... WHERE id = $1 leaves: status, health_status,
\* spec, metadata, last_updated_at and updated_at = NOW()
updatedWorkloadRow(r, updates, t, c) ==
  [ r EXCEPT !.status = updates.status,
             !.health_status = updates.health_status,
             !.spec = updates.spec,
             !.metadata = updates.metadata,
             !.last_updated_at = updates.last_updated_at,
             !.updated_at = t,
             !.by = c ]

\* updateWorkload with the WHERE clause lost: every row is updated
updateWorkload_everyRow(rows, id, updates, t, c) ==
  { updatedWorkloadRow(r, updates, t, c) : r \in rows }

updateWorkload(rows, id, updates, t, c) ==
  { IF r.id = id THEN updatedWorkloadRow(r, updates, t, c) ELSE r : r \in rows }

(* ------------------------------ scheduler ------------------------------ *)

\* where the loops of the reconcile body stand after entity i of list pc is done:
\* the next host, else the first workload, else the end of the callback
Position(merged, pc, i) ==
  IF pc = "hosts" /\ i <= Len(merged.hosts)
    THEN [pc |-> "hosts", i |-> i]
  ELSE IF pc = "hosts"
    THEN IF Len(merged.workloads) >= 1
           THEN [pc |-> "workloads", i |-> 1]
           ELSE [pc |-> "commit", i |-> 1]
  ELSE IF i <= Len(merged.workloads)
    THEN [pc |-> "workloads", i |-> i]
    ELSE [pc |-> "commit", i |-> 1]

\* the cycles as they are once cycle c has started: c is alone when no other cycle
\* is running, and a running cycle is no longer alone
Started(c, origin) ==
  [ d \in Cycles |->
      IF d = c
        THEN [ NoCycle EXCEPT
                 !.pc = "discover",
                 !.origin = origin,
                 !.k8s = "pending",
                 !.pve = IF proxmoxConnector THEN "pending" ELSE "ok",
                 !.at = now + 1,
                 !.solo = \A e \in Cycles : ~Running(e) ]
      ELSE IF Running(d) THEN [cyc[d] EXCEPT !.solo = FALSE]
      ELSE cyc[d] ]

\* the setInterval callback: every tick starts a cycle, whatever the earlier
\* cycles are doing
TimerTick ==
  /\ proc.alive /\ proc.timerArmed
  /\ started < MaxCycles
  /\ started' = started + 1
  /\ now' = now + 1
  /\ cyc' = Started(started + 1, "timer")
  /\ UNCHANGED <<hosts, workloads, nextId, rd, proc, syncIntervalMs, proxmoxConnector, calls, lifecycle>>

\* POST /inventory/sync: the handler starts a cycle of its own
SyncRequest ==
  /\ proc.alive
  /\ started < MaxCycles
  /\ started' = started + 1
  /\ now' = now + 1
  /\ cyc' = Started(started + 1, "api")
  /\ UNCHANGED <<hosts, workloads, nextId, rd, proc, syncIntervalMs, proxmoxConnector, calls, lifecycle>>

\* a catch block that gives up: it clears the interval and exits
OnScheduledFailure_exits(p) == [timerArmed |-> FALSE, alive |-> FALSE]

\* what the catch block of the scheduled callback does to the process: it logs
OnScheduledFailure(p) == p

\* a catch block of the handler that logs like the timer callback and answers
\* nothing
Failed_silent(rec, cause) ==
  [ rec EXCEPT !.pc = "failed",
               !.cause = IF rec.cause = "none" THEN cause ELSE rec.cause ]

\* the catch block of a cycle: the timer callback logs, the handler answers 500
Failed(rec, cause) ==
  [ rec EXCEPT !.pc = "failed",
               !.cause = IF rec.cause = "none" THEN cause ELSE rec.cause,
               !.res = IF rec.origin = "api" THEN "500" ELSE "none" ]

ProcAfterFailure(rec) ==
  IF rec.origin = "timer" THEN OnScheduledFailure(proc) ELSE proc

\* Promise.all over the two discoverAll calls resolves when both have resolved
AllResolved(rec) ==
  IF rec.k8s = "ok" /\ rec.pve = "ok"
    THEN [rec EXCEPT !.pc = "getClient", !.merged = Merge(rec.k8sInv, rec.pveInv)]
    ELSE rec

\* connector.discoverAll() of the Kubernetes connector settles: it resolves with
\* one of the inventories the cluster can show, or it rejects
K8sSettles(c, inventories) ==
  /\ cyc[c].pc = "discover" /\ cyc[c].k8s = "pending"
  /\ \/ /\ \E inv \in inventories :
             cyc' = [cyc EXCEPT ![c] = AllResolved([@ EXCEPT !.k8s = "ok", !.k8sInv = inv])]
        /\ proc' = proc
     \/ /\ cyc' = [cyc EXCEPT ![c] = Failed([@ EXCEPT !.k8s = "err"], "discovery")]
        /\ proc' = ProcAfterFailure(cyc[c])
  /\ UNCHANGED <<hosts, workloads, started, now, nextId, rd, syncIntervalMs, proxmoxConnector, calls, lifecycle>>

K8sDiscoverAll(c) == K8sSettles(c, K8sInventories)

\* proxmoxConnector.discoverAll() settles
ProxmoxSettles(c, inventories) ==
  /\ cyc[c].pc = "discover" /\ cyc[c].pve = "pending"
  /\ \/ /\ \E inv \in inventories :
             cyc' = [cyc EXCEPT ![c] = AllResolved([@ EXCEPT !.pve = "ok", !.pveInv = inv])]
        /\ proc' = proc
     \/ /\ cyc' = [cyc EXCEPT ![c] = Failed([@ EXCEPT !.pve = "err"], "discovery")]
        /\ proc' = ProcAfterFailure(cyc[c])
  /\ UNCHANGED <<hosts, workloads, started, now, nextId, rd, syncIntervalMs, proxmoxConnector, calls, lifecycle>>

ProxmoxDiscoverAll(c) == ProxmoxSettles(c, ProxmoxInventories)

(* ------------------------- DatabaseClient.transaction ------------------ *)

\* db.getClient(): pool.connect() hands out a client, or rejects; a rejection is
\* thrown before the try block of transaction
GetClient(c) ==
  /\ cyc[c].pc = "getClient"
  /\ \/ /\ cyc' = [cyc EXCEPT ![c] = [@ EXCEPT !.pc = "begin", !.client = "held"]]
        /\ proc' = proc
     \/ /\ cyc' = [cyc EXCEPT ![c] = Failed(@, "store")]
        /\ proc' = ProcAfterFailure(cyc[c])
  /\ UNCHANGED <<hosts, workloads, started, now, nextId, rd, syncIntervalMs, proxmoxConnector, calls, lifecycle>>

\* client.query('BEGIN'), then the callback starts with the first host
Begin(c) ==
  /\ cyc[c].pc = "begin"
  /\ \/ LET p == Position(cyc[c].merged, "hosts", 1)
        IN  cyc' = [cyc EXCEPT ![c] = [@ EXCEPT !.tx = "open", !.pc = p.pc, !.i = p.i]]
     \/ cyc' = [cyc EXCEPT ![c] = [@ EXCEPT !.pc = "rollback", !.cause = "store"]]
  /\ UNCHANGED <<hosts, workloads, started, now, nextId, rd, proc, syncIntervalMs,
                 proxmoxConnector, calls, lifecycle>>

(* ------------------------- the reconcile callback ---------------------- *)

\* the loop moving on with no counter incremented
Written_uncounted(rec, counter) ==
  LET p == Position(rec.merged, rec.pc, rec.i + 1)
  IN  [rec EXCEPT !.pc = p.pc, !.i = p.i, !.existing = "unknown"]

\* the callback's position once entity i of the current list is written
Written(rec, counter) ==
  LET p == Position(rec.merged, rec.pc, rec.i + 1)
  IN  [ rec EXCEPT !.pc = p.pc,
                   !.i = p.i,
                   !.existing = "unknown",
                   !.stats = [@ EXCEPT ![counter] = @ + 1] ]

\* const existing = await getHostById(host.id)
LookupHost(c) ==
  /\ cyc[c].pc = "hosts" /\ cyc[c].existing = "unknown"
  /\ cyc' = [cyc EXCEPT ![c] =
       [@ EXCEPT !.existing =
          IF getById(hosts, cyc[c].merged.hosts[cyc[c].i].id) THEN "found" ELSE "absent"]]
  /\ UNCHANGED <<hosts, workloads, started, now, nextId, rd, proc, syncIntervalMs,
                 proxmoxConnector, calls, lifecycle>>

\* await updateHost(host.id, host); stats.hostsUpdated++
UpdateHost(c) ==
  /\ cyc[c].pc = "hosts" /\ cyc[c].existing = "found"
  /\ LET e == cyc[c].merged.hosts[cyc[c].i]
     IN  hosts' = updateHost(hosts, e.id, DiscoveredHost(e.id, e.ver, cyc[c].at), now, c)
  /\ cyc' = [cyc EXCEPT ![c] = Written(@, "hostsUpdated")]
  /\ UNCHANGED <<workloads, started, now, nextId, rd, proc, syncIntervalMs, proxmoxConnector, calls, lifecycle>>

\* await createHost(host); stats.hostsAdded++
CreateHost(c) ==
  /\ cyc[c].pc = "hosts" /\ cyc[c].existing = "absent"
  /\ nextId < Len(GeneratedIds)
  /\ LET e == cyc[c].merged.hosts[cyc[c].i]
     IN  hosts' = createHost(hosts, DiscoveredHost(e.id, e.ver, cyc[c].at),
                             GeneratedIds[nextId + 1], now, c)
  /\ nextId' = nextId + 1
  /\ cyc' = [cyc EXCEPT ![c] = Written(@, "hostsAdded")]
  /\ UNCHANGED <<workloads, started, now, rd, proc, syncIntervalMs, proxmoxConnector, calls, lifecycle>>

\* const existing = await getWorkloadById(workload.id)
LookupWorkload(c) ==
  /\ cyc[c].pc = "workloads" /\ cyc[c].existing = "unknown"
  /\ cyc' = [cyc EXCEPT ![c] =
       [@ EXCEPT !.existing =
          IF getById(workloads, cyc[c].merged.workloads[cyc[c].i].id)
            THEN "found" ELSE "absent"]]
  /\ UNCHANGED <<hosts, workloads, started, now, nextId, rd, proc, syncIntervalMs,
                 proxmoxConnector, calls, lifecycle>>

\* await updateWorkload(workload.id, workload); stats.workloadsUpdated++
UpdateWorkload(c) ==
  /\ cyc[c].pc = "workloads" /\ cyc[c].existing = "found"
  /\ LET e == cyc[c].merged.workloads[cyc[c].i]
     IN  workloads' = updateWorkload(workloads, e.id,
                                     DiscoveredWorkload(e.id, e.ver, cyc[c].at), now, c)
  /\ cyc' = [cyc EXCEPT ![c] = Written(@, "workloadsUpdated")]
  /\ UNCHANGED <<hosts, started, now, nextId, rd, proc, syncIntervalMs, proxmoxConnector, calls, lifecycle>>

\* await createWorkload(workload); stats.workloadsAdded++
CreateWorkload(c) ==
  /\ cyc[c].pc = "workloads" /\ cyc[c].existing = "absent"
  /\ nextId < Len(GeneratedIds)
  /\ LET e == cyc[c].merged.workloads[cyc[c].i]
     IN  workloads' = createWorkload(workloads, DiscoveredWorkload(e.id, e.ver, cyc[c].at),
                                     GeneratedIds[nextId + 1], now, c)
  /\ nextId' = nextId + 1
  /\ cyc' = [cyc EXCEPT ![c] = Written(@, "workloadsAdded")]
  /\ UNCHANGED <<hosts, started, now, rd, proc, syncIntervalMs, proxmoxConnector, calls, lifecycle>>

\* the first loop of the callback run to its end on the rows st.rows: for every
\* host of the list, in the order of the list, getHostById, then updateHost or
\* createHost and the counter
RECURSIVE reconcileHosts(_, _, _, _, _)
reconcileHosts(st, list, at, t, c) ==
  IF list = <<>> THEN st
  ELSE
    LET e == Head(list)
        host == DiscoveredHost(e.id, e.ver, at)
    IN  IF getById(st.rows, e.id)
          THEN reconcileHosts(
                 [st EXCEPT !.rows = updateHost(st.rows, e.id, host, t, c),
                            !.updated = @ + 1],
                 Tail(list), at, t, c)
          ELSE reconcileHosts(
                 [st EXCEPT !.rows = createHost(st.rows, host, GeneratedIds[st.nextId + 1], t, c),
                            !.nextId = @ + 1,
                            !.added = @ + 1],
                 Tail(list), at, t, c)

\* the second loop of the callback run to its end
RECURSIVE reconcileWorkloads(_, _, _, _, _)
reconcileWorkloads(st, list, at, t, c) ==
  IF list = <<>> THEN st
  ELSE
    LET e == Head(list)
        workload == DiscoveredWorkload(e.id, e.ver, at)
    IN  IF getById(st.rows, e.id)
          THEN reconcileWorkloads(
                 [st EXCEPT !.rows = updateWorkload(st.rows, e.id, workload, t, c),
                            !.updated = @ + 1],
                 Tail(list), at, t, c)
          ELSE reconcileWorkloads(
                 [st EXCEPT !.rows = createWorkload(st.rows, workload,
                                                    GeneratedIds[st.nextId + 1], t, c),
                            !.nextId = @ + 1,
                            !.added = @ + 1],
                 Tail(list), at, t, c)

\* the callback run to its end with no other writer: the two tables and the
\* stats it returns
reconcile(hostRows, workloadRows, generated, snapshot, at, t, c) ==
  LET h == reconcileHosts([rows |-> hostRows, nextId |-> generated, added |-> 0,
                           updated |-> 0], snapshot.hosts, at, t, c)
      w == reconcileWorkloads([rows |-> workloadRows, nextId |-> h.nextId, added |-> 0,
                               updated |-> 0], snapshot.workloads, at, t, c)
  IN  [ hosts     |-> h.rows,
        workloads |-> w.rows,
        nextId    |-> w.nextId,
        stats     |-> [ hostsAdded |-> h.added, hostsUpdated |-> h.updated,
                        workloadsAdded |-> w.added, workloadsUpdated |-> w.updated ] ]

\* a statement of the callback is rejected by the store (db.query logs and
\* rethrows): the callback throws, the statement has changed nothing
QueryFails(c) ==
  /\ cyc[c].pc \in {"hosts", "workloads"}
  /\ cyc' = [cyc EXCEPT ![c] = [@ EXCEPT !.pc = "rollback", !.cause = "store"]]
  /\ UNCHANGED <<hosts, workloads, started, now, nextId, rd, proc, syncIntervalMs,
                 proxmoxConnector, calls, lifecycle>>

\* client.query('COMMIT'); finally client.release().  The client's transaction
\* holds no statement of the callback: there is nothing it makes visible.
Commit(c) ==
  /\ cyc[c].pc = "commit"
  /\ \/ cyc' = [cyc EXCEPT ![c] =
          [@ EXCEPT !.pc = "done", !.tx = "committed", !.client = "released",
                    !.res = IF @ = "none" /\ cyc[c].origin = "api" THEN "200" ELSE @]]
     \/ cyc' = [cyc EXCEPT ![c] = [@ EXCEPT !.pc = "rollback", !.cause = "store"]]
  /\ UNCHANGED <<hosts, workloads, started, now, nextId, rd, proc, syncIntervalMs,
                 proxmoxConnector, calls, lifecycle>>

\* catch: client.query('ROLLBACK'), rethrow; finally client.release().  ROLLBACK
\* undoes the statements of the client's transaction, of which there are none;
\* if ROLLBACK is rejected its error is thrown instead.  The rejection reaches
\* the catch block of the cycle.
Rollback(c) ==
  /\ cyc[c].pc = "rollback"
  /\ \E ok \in BOOLEAN :
       cyc' = [cyc EXCEPT ![c] =
         Failed([@ EXCEPT !.tx = IF ok THEN "rolledback" ELSE @, !.client = "released"],
                "store")]
  /\ proc' = ProcAfterFailure(cyc[c])
  /\ UNCHANGED <<hosts, workloads, started, now, nextId, rd, syncIntervalMs, proxmoxConnector, calls, lifecycle>>

(* ------------------------------- readers ------------------------------- *)

\* GET /inventory: getHosts() and getWorkloads() are issued together
GetInventory ==
  /\ proc.alive /\ rd.pc = "idle"
  /\ rd' = [rd EXCEPT !.pc = "reading"]
  /\ UNCHANGED <<hosts, workloads, cyc, started, now, nextId, proc, syncIntervalMs,
                 proxmoxConnector, calls, lifecycle>>

\* the answer once both queries have resolved: res.json({data: {hosts, workloads}})
Answered(r) ==
  IF r.gotHosts /\ r.gotWorkloads THEN [r EXCEPT !.pc = "responded", !.res = "200"] ELSE r

\* SELECT * FROM hosts resolves with the committed rows
ReadHosts ==
  /\ rd.pc = "reading" /\ ~rd.gotHosts
  /\ rd' = Answered([rd EXCEPT !.hosts = hosts, !.gotHosts = TRUE])
  /\ UNCHANGED <<hosts, workloads, cyc, started, now, nextId, proc, syncIntervalMs,
                 proxmoxConnector, calls, lifecycle>>

\* SELECT * FROM workloads resolves with the committed rows
ReadWorkloads ==
  /\ rd.pc = "reading" /\ ~rd.gotWorkloads
  /\ rd' = Answered([rd EXCEPT !.workloads = workloads, !.gotWorkloads = TRUE])
  /\ UNCHANGED <<hosts, workloads, cyc, started, now, nextId, proc, syncIntervalMs,
                 proxmoxConnector, calls, lifecycle>>

\* one of the two queries is rejected: the handler answers 500
ReadFails ==
  /\ rd.pc = "reading"
  /\ rd' = [rd EXCEPT !.pc = "responded", !.res = "500", !.hosts = {}, !.workloads = {}]
  /\ UNCHANGED <<hosts, workloads, cyc, started, now, nextId, proc, syncIntervalMs,
                 proxmoxConnector, calls, lifecycle>>

\* a step of a started cycle
CycleStep ==
  \/ \E c \in Cycles : K8sDiscoverAll(c)
  \/ \E c \in Cycles : ProxmoxDiscoverAll(c)
  \/ \E c \in Cycles : GetClient(c)
  \/ \E c \in Cycles : Begin(c)
  \/ \E c \in Cycles : LookupHost(c)
  \/ \E c \in Cycles : UpdateHost(c)
  \/ \E c \in Cycles : CreateHost(c)
  \/ \E c \in Cycles : LookupWorkload(c)
  \/ \E c \in Cycles : UpdateWorkload(c)
  \/ \E c \in Cycles : CreateWorkload(c)
  \/ \E c \in Cycles : QueryFails(c)
  \/ \E c \in Cycles : Commit(c)
  \/ \E c \in Cycles : Rollback(c)

Next ==
  \/ TimerTick
  \/ SyncRequest
  \/ CycleStep

\* the scheduler and the reconciler
Spec == Init /\ [][Next]_vars

\* one cycle and one GET /inventory request beside it
NextReaders ==
  \/ started = 0 /\ TimerTick
  \/ started = 0 /\ SyncRequest
  \/ CycleStep
  \/ GetInventory
  \/ ReadHosts
  \/ ReadWorkloads
  \/ ReadFails

SpecReaders == Init /\ [][NextReaders]_vars

\* one cycle over the larger answers of the two connectors
NextScenario ==
  \/ started = 0 /\ TimerTick
  \/ started = 0 /\ SyncRequest
  \/ K8sSettles(1, K8sScenarios)
  \/ ProxmoxSettles(1, ProxmoxScenarios)
  \/ GetClient(1)
  \/ Begin(1)
  \/ LookupHost(1)
  \/ UpdateHost(1)
  \/ CreateHost(1)
  \/ LookupWorkload(1)
  \/ UpdateWorkload(1)
  \/ CreateWorkload(1)
  \/ QueryFails(1)
  \/ Commit(1)
  \/ Rollback(1)

SpecScenario == Init /\ [][NextScenario]_vars

(* ------------------ KubernetesConnector.discoverAll -------------------- *)

\* discoverAll is called: the four discoveries start together (Promise.all)
KubernetesDiscoverAll ==
  /\ k8sCall.pc = "idle"
  /\ k8sCall' = [k8sCall EXCEPT !.pc = "listing"]
  /\ UNCHANGED <<reconciler, pveCall, txCall, lifecycle>>

\* Promise.all resolves when the nodes and the three lists are there: the
\* health checks follow
AllListed(call) ==
  IF call.nodes = "ok" /\ \A kind \in WorkloadKinds : call.lists[kind].pc = "done"
    THEN [call EXCEPT !.pc = "health"]
    ELSE call

\* a discovery throws: Promise.all rejects, the catch of discoverAll logs and
\* rethrows
Thrown(call, cause) == [call EXCEPT !.pc = "rejected", !.cause = cause]

\* discoverNodes: listNode answers node n1, or fails and discoverNodes rethrows
DiscoverNodes ==
  /\ k8sCall.pc = "listing" /\ k8sCall.nodes = "pending"
  /\ \/ k8sCall' = AllListed([k8sCall EXCEPT !.nodes = "ok",
                                              !.hosts = <<[id |-> "uid-n1", name |-> "n1"]>>])
     \/ k8sCall' = Thrown([k8sCall EXCEPT !.nodes = "err"], "listNode")
  /\ UNCHANGED <<reconciler, pveCall, txCall, lifecycle>>

\* the loop of a discovery once the namespace at i is dealt with
NextNamespace(list) ==
  IF list.i + 1 > Len(list.namespaces)
    THEN [list EXCEPT !.pc = "done", !.i = @ + 1]
    ELSE [list EXCEPT !.i = @ + 1]

\* const namespaces = await this.discoverNamespaces(), in each of the three
\* discoveries: a failure is rethrown
DiscoverNamespaces(kind) ==
  /\ k8sCall.pc = "listing" /\ k8sCall.lists[kind].pc = "namespaces"
  /\ \/ LET names == discoverNamespaces(ClusterNamespaces)
        IN  k8sCall' = AllListed([k8sCall EXCEPT !.lists[kind] =
              NextNamespace([@ EXCEPT !.pc = "list", !.namespaces = names, !.i = 0])])
     \/ k8sCall' = Thrown([k8sCall EXCEPT !.lists[kind].pc = "err"], "listNamespace")
  /\ UNCHANGED <<reconciler, pveCall, txCall, lifecycle>>

\* a catch inside the loop that rethrows
OnListFailure_throws(list, namespace) ==
  [list EXCEPT !.pc = "err", !.failed = @ \cup {namespace}]

\* the catch inside the loop over the namespaces: logger.warn, and the loop
\* goes on
OnListFailure(list, namespace) ==
  [list EXCEPT !.failed = @ \cup {namespace}]

\* listNamespacedDeployment / listNamespacedStatefulSet / listNamespacedPod of
\* the namespace at i: the items are converted and pushed, or the call fails
ListNamespaced(kind) ==
  /\ k8sCall.pc = "listing" /\ k8sCall.lists[kind].pc = "list"
  /\ LET list == k8sCall.lists[kind]
         namespace == list.namespaces[list.i]
         items == ClusterItems(kind, namespace)
         pushed == [list EXCEPT !.items =
                      @ \o [j \in 1..Len(items) |-> convertToWorkload(kind, items[j], namespace)]]
     IN  \/ k8sCall' = AllListed([k8sCall EXCEPT !.lists[kind] = NextNamespace(pushed)])
         \/ LET caught == OnListFailure(list, namespace)
            IN  k8sCall' =
                  IF caught.pc = "err"
                    THEN Thrown([k8sCall EXCEPT !.lists[kind] = caught], "listNamespaced")
                    ELSE AllListed([k8sCall EXCEPT !.lists[kind] = NextNamespace(caught)])
  /\ UNCHANGED <<reconciler, pveCall, txCall, lifecycle>>

\* const workloads = [...deployments, ...statefulsets, ...pods]; every workload
\* gets the health its check answers; discoverAll resolves
CheckHealth ==
  /\ k8sCall.pc = "health"
  /\ LET found == k8sCall.lists["k8s-deployment"].items
                    \o k8sCall.lists["k8s-statefulset"].items
                    \o k8sCall.lists["k8s-pod"].items
     IN  \E health \in [1..Len(found) -> {"healthy", "unhealthy", "unknown"}] :
           /\ \A j \in 1..Len(found) : health[j] \in HealthOutcomes(found[j].type)
           /\ k8sCall' =
                [k8sCall EXCEPT
                   !.pc = "resolved",
                   !.result =
                     [ hosts     |-> k8sCall.hosts,
                       workloads |-> [j \in 1..Len(found) |->
                                        [found[j] EXCEPT !.health_status = health[j]]] ]]
  /\ UNCHANGED <<reconciler, pveCall, txCall, lifecycle>>

NextKubernetes ==
  \/ KubernetesDiscoverAll
  \/ DiscoverNodes
  \/ \E kind \in WorkloadKinds : DiscoverNamespaces(kind)
  \/ \E kind \in WorkloadKinds : ListNamespaced(kind)
  \/ CheckHealth

\* the connectors are followed beside a process that has no cycle to run
InitConnectors ==
  /\ Init
  /\ hosts = {} /\ syncIntervalMs = 60000 /\ proxmoxConnector

\* one discoverAll call of the Kubernetes connector
SpecKubernetes == InitConnectors /\ [][NextKubernetes]_vars

(* -------------------- ProxmoxConnector.discoverAll --------------------- *)

\* discoverAll is called, the first time on a connector constructed for one of
\* the clusters; what the call before has answered is kept for comparison
ProxmoxCall ==
  /\ pveCall.pc \in {"idle", "resolved", "rejected"}
  /\ pveCall.calls < MaxDiscoveries
  /\ \E cluster \in Clusters :
       /\ pveCall.calls > 0 => cluster = pveCall.cluster
       /\ pveCall' =
            [ PveIdle EXCEPT
                !.pc = "getNodes",
                !.calls = pveCall.calls + 1,
                !.cluster = cluster,
                !.previous = IF pveCall.pc = "resolved" THEN pveCall.result
                             ELSE pveCall.previous ]
  /\ UNCHANGED <<reconciler, k8sCall, txCall, lifecycle>>

\* the loop over the nodes once node i is done: the next node, or
\* return {hosts, workloads}
NextNode(call) ==
  IF call.i + 1 > Len(call.nodes)
    THEN [ call EXCEPT !.pc = "resolved", !.i = @ + 1,
                       !.result = [hosts |-> call.hosts, workloads |-> call.workloads] ]
    ELSE [call EXCEPT !.pc = "guests", !.i = @ + 1]

\* const nodes = await this.getNodes(); hosts = nodes.map(convertNodeToHost).
\* A failed request rejects discoverAll.
GetNodes ==
  /\ pveCall.pc = "getNodes"
  /\ \/ \E seen \in [1..Len(ProxmoxNodes) -> Versions] :
          LET nodes == [j \in 1..Len(ProxmoxNodes) |-> RawNode(ProxmoxNodes[j], seen[j])]
          IN  pveCall' =
                NextNode([ pveCall EXCEPT
                             !.nodes = nodes,
                             !.i = 0,
                             !.hosts = [j \in 1..Len(nodes) |->
                                          convertProxmoxNodeToHost(pveCall.cluster, nodes[j])] ])
     \/ pveCall' = [pveCall EXCEPT !.pc = "rejected", !.cause = "getNodes"]
  /\ UNCHANGED <<reconciler, k8sCall, txCall, lifecycle>>

\* const [vms, lxcs] = await Promise.all([getVMs(node), getLXCs(node)]) for the
\* node at i.  Nothing catches a rejection of either request: it rejects
\* discoverAll.
GetGuests ==
  /\ pveCall.pc = "guests"
  /\ LET node == pveCall.nodes[pveCall.i].node
     IN  \/ \E seenVMs \in [1..Len(NodeVMs(node)) -> Versions],
               seenLXCs \in [1..Len(NodeLXCs(node)) -> Versions] :
               pveCall' =
                 [ pveCall EXCEPT
                     !.pc = "configs",
                     !.vms = [j \in 1..Len(NodeVMs(node)) |->
                                RawGuest(NodeVMs(node)[j], seenVMs[j])],
                     !.lxcs = [j \in 1..Len(NodeLXCs(node)) |->
                                 RawGuest(NodeLXCs(node)[j], seenLXCs[j])] ]
         \/ \E request \in {"getVMs", "getLXCs"} :
               pveCall' = [pveCall EXCEPT !.pc = "rejected", !.cause = request]
  /\ UNCHANGED <<reconciler, k8sCall, txCall, lifecycle>>

\* a filter that keeps every container
runningLxcs_all(lxcs) == lxcs

\* lxcs.filter(lxc => lxc.status === 'running')
runningLxcs(lxcs) == SelectSeq(lxcs, LAMBDA lxc : lxc.status = "running")

\* configMap.get(vmid) ?? null, for the configs answered for the containers
\* of the list running
configOf(running, lxcConfigs, vmid) ==
  IF \E idx \in 1..Len(running) : running[idx].vmid = vmid
    THEN lxcConfigs[CHOOSE idx \in 1..Len(running) :
                      /\ running[idx].vmid = vmid
                      /\ \A later \in idx + 1..Len(running) : running[later].vmid # vmid]
    ELSE NullConfig

\* the config of every running container is requested (getLXCConfig answers
\* null when its request fails), the VMs and the containers are converted and
\* pushed, and the loop goes to the next node.  requested keeps the requests
\* of this call and what each was answered.
GetLXCConfigs ==
  /\ pveCall.pc = "configs"
  /\ LET node == pveCall.nodes[pveCall.i].node
         hostId == getHostId(pveCall.cluster, node)
         running == runningLxcs(pveCall.lxcs)
     IN  \E lxcConfigs \in [1..Len(running) -> LXCConfigs] :
           pveCall' =
             NextNode([ pveCall EXCEPT
               !.workloads =
                  @ \o [j \in 1..Len(pveCall.vms) |->
                          convertVMToWorkload(pveCall.vms[j], node, hostId)]
                    \o [j \in 1..Len(pveCall.lxcs) |->
                          convertLXCToWorkload(pveCall.lxcs[j], node, hostId,
                            configOf(running, lxcConfigs, pveCall.lxcs[j].vmid))],
               !.requested =
                  @ \o [j \in 1..Len(running) |->
                          [node |-> node, vmid |-> running[j].vmid, config |-> lxcConfigs[j]]],
               !.vms = <<>>,
               !.lxcs = <<>> ])
  /\ UNCHANGED <<reconciler, k8sCall, txCall, lifecycle>>

NextProxmox ==
  \/ ProxmoxCall
  \/ GetNodes
  \/ GetGuests
  \/ GetLXCConfigs

\* the discoverAll calls of the Proxmox connector
SpecProxmox == InitConnectors /\ [][NextProxmox]_vars

(* ------------------ a source that never answers ----------------------- *)

\* the Kubernetes API never answers a request of discoverAll.  No request of
\* the connector carries a timeout (_connectionTimeout is only checked to be
\* positive in initialize), so discoverAll stays pending.
K8sNeverAnswers(c) ==
  /\ cyc[c].pc = "discover" /\ cyc[c].k8s = "pending"
  /\ cyc' = [cyc EXCEPT ![c] = [@ EXCEPT !.k8s = "hung"]]
  /\ UNCHANGED <<hosts, workloads, started, now, nextId, rd, proc, syncIntervalMs,
                 proxmoxConnector, calls, lifecycle>>

\* the Proxmox API never answers a request of discoverAll
ProxmoxNeverAnswers(c) ==
  /\ cyc[c].pc = "discover" /\ cyc[c].pve = "pending"
  /\ cyc' = [cyc EXCEPT ![c] = [@ EXCEPT !.pve = "hung"]]
  /\ UNCHANGED <<hosts, workloads, started, now, nextId, rd, proc, syncIntervalMs,
                 proxmoxConnector, calls, lifecycle>>

\* the axios client of the Proxmox connector is created with
\* timeout: this.connectionTimeout (20000 ms): the unanswered request rejects,
\* and with it discoverAll
ProxmoxTimeout(c) ==
  /\ cyc[c].pc = "discover" /\ cyc[c].pve = "hung"
  /\ cyc' = [cyc EXCEPT ![c] = Failed([@ EXCEPT !.pve = "err"], "discovery")]
  /\ proc' = ProcAfterFailure(cyc[c])
  /\ UNCHANGED <<hosts, workloads, started, now, nextId, rd, syncIntervalMs,
                 proxmoxConnector, calls, lifecycle>>

\* one cycle whose sources may never answer
NextLive ==
  \/ started = 0 /\ TimerTick
  \/ started = 0 /\ SyncRequest
  \/ CycleStep
  \/ \E c \in Cycles : K8sNeverAnswers(c)
  \/ \E c \in Cycles : ProxmoxNeverAnswers(c)
  \/ \E c \in Cycles : ProxmoxTimeout(c)

\* the event loop runs every continuation that is ready and every timer that
\* is due: as long as a step is possible, a step is taken
SpecLive == Init /\ [][NextLive]_vars /\ WF_vars(NextLive)

(* -------------------- DatabaseClient.transaction, alone ---------------- *)

\* db.transaction(callback) is called
Transaction ==
  /\ txCall.pc \in {"idle", "resolved", "rejected"}
  /\ txCall.calls < MaxTransactions
  /\ \E callback \in Callbacks :
       txCall' =
         [ TxIdle EXCEPT
             !.pc = "getClient",
             !.calls = txCall.calls + 1,
             !.callback = callback,
             !.outcomes =
                IF txCall.pc = "idle" THEN txCall.outcomes
                ELSE Append(txCall.outcomes, [pc |-> txCall.pc, thrown |-> txCall.thrown]) ]
  /\ UNCHANGED <<reconciler, k8sCall, pveCall, lifecycle>>

\* const client = await this.getClient(), before the try block: a rejection of
\* pool.connect() leaves transaction at once
TxGetClient ==
  /\ txCall.pc = "getClient"
  /\ \/ txCall' = [txCall EXCEPT !.pc = "begin", !.client = "held"]
     \/ txCall' = [txCall EXCEPT !.pc = "rejected", !.failed = "connect", !.thrown = "connect"]
  /\ UNCHANGED <<reconciler, k8sCall, pveCall, lifecycle>>

\* a catch block that logs and returns
Caught_swallowed(call, step) ==
  [call EXCEPT !.pc = "resolved", !.failed = step, !.client = "released",
               !.events = Append(@, "release")]

\* a rejection inside the try block reaches the catch block
Caught(call, step) ==
  [call EXCEPT !.pc = "rollback", !.failed = step]

\* client.query(statement)
query(call, statement) ==
  [call EXCEPT !.sent = Append(@, statement), !.events = Append(@, statement)]

\* a finally block that keeps the client when the catch block has thrown
release_unlessThrown(call) ==
  IF call.pc = "rejected" THEN call
  ELSE [call EXCEPT !.client = "released", !.events = Append(@, "release")]

\* finally { client.release() }
release(call) ==
  [call EXCEPT !.client = "released", !.events = Append(@, "release")]

\* await client.query('BEGIN')
TxBegin ==
  /\ txCall.pc = "begin"
  /\ LET issued == query(txCall, "BEGIN")
     IN  \/ txCall' = [issued EXCEPT !.pc = "callback"]
         \/ txCall' = Caught(issued, "BEGIN")
  /\ UNCHANGED <<reconciler, k8sCall, pveCall, lifecycle>>

\* const result = await callback(client): the callback issues its statements,
\* on the client or not, and resolves, or one of its statements rejects
TxCallback ==
  /\ txCall.pc = "callback"
  /\ LET issued == IF txCall.callback = "testConnection" THEN query(txCall, "SELECT")
                   ELSE txCall
     IN  \/ txCall' = [issued EXCEPT !.pc = "commit", !.result = "result of the callback"]
         \/ txCall' = Caught(issued, "callback")
  /\ UNCHANGED <<reconciler, k8sCall, pveCall, lifecycle>>

\* await client.query('COMMIT'); return result; finally client.release()
TxCommit ==
  /\ txCall.pc = "commit"
  /\ LET issued == query(txCall, "COMMIT")
     IN  \/ txCall' = release([issued EXCEPT !.pc = "resolved"])
         \/ txCall' = Caught([issued EXCEPT !.result = "none"], "COMMIT")
  /\ UNCHANGED <<reconciler, k8sCall, pveCall, lifecycle>>

\* catch: await client.query('ROLLBACK'); logger.error; throw error; finally
\* client.release().  When ROLLBACK itself rejects, its error leaves the catch
\* block in place of the error that was caught.
TxRollback ==
  /\ txCall.pc = "rollback"
  /\ LET issued == [query(txCall, "ROLLBACK") EXCEPT !.pc = "rejected"]
     IN  \/ txCall' = release([issued EXCEPT !.rollback = "ok", !.thrown = txCall.failed])
         \/ txCall' = release([issued EXCEPT !.rollback = "err", !.thrown = "ROLLBACK"])
  /\ UNCHANGED <<reconciler, k8sCall, pveCall, lifecycle>>

NextTransaction ==
  \/ Transaction
  \/ TxGetClient
  \/ TxBegin
  \/ TxCallback
  \/ TxCommit
  \/ TxRollback

\* the db.transaction calls of a run, one after the other
SpecTransaction == InitConnectors /\ [][NextTransaction]_vars

(* ------------------------ MigrationRunner.migrate ---------------------- *)

\* migrate() is called.  Before the first run the directory is one of the
\* listings and the database is new, or initialised by init, or holds the
\* first migration of the directory applied by an earlier process
Migrate ==
  /\ mig.pc \in {"idle", "returned", "failed"}
  /\ mig.runs < MaxMigrations
  /\ \/ /\ mig.runs = 0
        /\ \E listing \in Directories, initialised \in BOOLEAN, done \in 0..1 :
             LET first == SubSeq(loadMigrationFiles(listing), 1, done)
             IN  mig' =
                   [ mig EXCEPT
                       !.pc = "connect",
                       !.runs = 1,
                       !.listing = listing,
                       !.schema = {first[j].file : j \in 1..Len(first)},
                       !.schema_migrations =
                          {MigrationRow(first[j]) : j \in 1..Len(first)}
                            \cup (IF initialised THEN {InitialSchemaRow} ELSE {}),
                       !.commits = [j \in 1..Len(first) |-> first[j].version] ]
     \/ /\ mig.runs > 0
        /\ mig' = [ mig EXCEPT
                      !.pc = "connect",
                      !.runs = @ + 1,
                      !.appliedMigrations = {},
                      !.pending = <<>>,
                      !.i = 1,
                      !.applied = <<>>,
                      !.failedAt = "none",
                      !.previous = mig.pc ]
  /\ UNCHANGED <<reconciler, calls, db, lookup, sd>>

\* catch (error) { logger.error('Migration failed'); throw error }
MigrateFailed(m, step) == [m EXCEPT !.pc = "failed", !.failedAt = step]

\* await db.connect()
MigConnect ==
  /\ mig.pc = "connect"
  /\ \/ mig' = [mig EXCEPT !.pc = "ensureMigrationsTable"]
     \/ mig' = MigrateFailed(mig, "connect")
  /\ UNCHANGED <<reconciler, calls, db, lookup, sd>>

\* await this.ensureMigrationsTable(): CREATE TABLE IF NOT EXISTS leaves the
\* rows of a table that exists
EnsureMigrationsTable ==
  /\ mig.pc = "ensureMigrationsTable"
  /\ \/ mig' = [mig EXCEPT !.pc = "getAppliedMigrations"]
     \/ mig' = MigrateFailed(mig, "ensureMigrationsTable")
  /\ UNCHANGED <<reconciler, calls, db, lookup, sd>>

\* appliedMigrations, allMigrations and pendingMigrations are computed; with
\* nothing pending migrate() returns, else the loop starts with the first
GetAppliedMigrations ==
  /\ mig.pc = "getAppliedMigrations"
  /\ \/ LET appliedMigrations == getAppliedMigrations(mig.schema_migrations)
            allMigrations == loadMigrationFiles(mig.listing)
            pending == pendingMigrations(allMigrations, appliedMigrations)
        IN  mig' = [ mig EXCEPT
                       !.appliedMigrations = appliedMigrations,
                       !.pending = pending,
                       !.i = 1,
                       !.pc = IF Len(pending) = 0 THEN "returned" ELSE "getClient" ]
     \/ mig' = MigrateFailed(mig, "getAppliedMigrations")
  /\ UNCHANGED <<reconciler, calls, db, lookup, sd>>

\* applyMigration: db.transaction asks for its client; a rejection leaves
\* transaction before its try block
MigGetClient ==
  /\ mig.pc = "getClient"
  /\ \/ mig' = [mig EXCEPT !.pc = "BEGIN"]
     \/ mig' = MigrateFailed(mig, "getClient")
  /\ UNCHANGED <<reconciler, calls, db, lookup, sd>>

\* await client.query('BEGIN')
MigBegin ==
  /\ mig.pc = "BEGIN"
  /\ \/ mig' = [mig EXCEPT !.pc = "sql"]
     \/ mig' = [mig EXCEPT !.pc = "ROLLBACK", !.failedAt = "BEGIN"]
  /\ UNCHANGED <<reconciler, calls, db, lookup, sd>>

\* await client.query(migration.sql)
MigSql ==
  /\ mig.pc = "sql"
  /\ \/ mig' = [onClient(mig, {mig.pending[mig.i].file}, {}) EXCEPT !.pc = "INSERT"]
     \/ mig' = [mig EXCEPT !.pc = "ROLLBACK", !.failedAt = "sql"]
  /\ UNCHANGED <<reconciler, calls, db, lookup, sd>>

\* await client.query('INSERT INTO schema_migrations (version, name) ...'):
\* version is the primary key, a second row of a version is rejected
MigInsert ==
  /\ mig.pc = "INSERT"
  /\ LET m == mig.pending[mig.i]
         taken == getAppliedMigrations(mig.schema_migrations \cup mig.staged.rows)
     IN  \/ /\ m.version \notin taken
            /\ mig' = [onClient(mig, {}, {MigrationRow(m)}) EXCEPT !.pc = "COMMIT"]
         \/ mig' = [mig EXCEPT !.pc = "ROLLBACK", !.failedAt = "INSERT"]
  /\ UNCHANGED <<reconciler, calls, db, lookup, sd>>

\* await client.query('COMMIT'): what the transaction holds is committed, the
\* client is released, and the loop goes to the next pending migration or
\* migrate() returns
MigCommit ==
  /\ mig.pc = "COMMIT"
  /\ \/ mig' =
          [ mig EXCEPT
              !.schema = @ \cup mig.staged.schema,
              !.schema_migrations = @ \cup mig.staged.rows,
              !.staged = NothingStaged,
              !.commits = Append(@, mig.pending[mig.i].version),
              !.applied = Append(@, mig.pending[mig.i]),
              !.i = @ + 1,
              !.pc = IF mig.i + 1 > Len(mig.pending) THEN "returned" ELSE "getClient" ]
     \/ mig' = [mig EXCEPT !.pc = "ROLLBACK", !.failedAt = "COMMIT"]
  /\ UNCHANGED <<reconciler, calls, db, lookup, sd>>

\* catch: await client.query('ROLLBACK'); throw; finally client.release().
\* What the transaction holds is dropped, by ROLLBACK or, when ROLLBACK is
\* rejected, with the connection; the rejection ends migrate()
MigRollback ==
  /\ mig.pc = "ROLLBACK"
  /\ mig' = [MigrateFailed(mig, mig.failedAt) EXCEPT !.staged = NothingStaged]
  /\ UNCHANGED <<reconciler, calls, db, lookup, sd>>

NextMigrate ==
  \/ Migrate
  \/ MigConnect
  \/ EnsureMigrationsTable
  \/ GetAppliedMigrations
  \/ MigGetClient
  \/ MigBegin
  \/ MigSql
  \/ MigInsert
  \/ MigCommit
  \/ MigRollback

\* the migrate() runs against one database
SpecMigrate == InitConnectors /\ [][NextMigrate]_vars

(* ------------------- DatabaseClient.connect and the rest --------------- *)

\* a call has ended
Ended(d, op, outcome) ==
  [d EXCEPT !.pc = "idle", !.history = Append(@, [op |-> op, outcome |-> outcome])]

\* connect(): with a pool it warns and returns; else this.pool = new Pool and
\* the test of the connection starts
Connect ==
  /\ db.pc = "idle" /\ db.calls < MaxClientCalls
  /\ db' = IF db.pool # "null"
             THEN Ended([db EXCEPT !.calls = @ + 1], "connect", "already initialized")
             ELSE [db EXCEPT !.calls = @ + 1, !.pool = "set", !.pc = "connecting"]
  /\ UNCHANGED <<reconciler, calls, mig, lookup, sd>>

\* const client = await this.pool.connect(); a rejection reaches the catch
\* block, which logs and rethrows
PoolConnect ==
  /\ db.pc = "connecting"
  /\ \/ db' = [db EXCEPT !.pc = "testing"]
     \/ db' = Ended(db, "connect", "rejected")
  /\ UNCHANGED <<reconciler, calls, mig, lookup, sd>>

\* await client.query('SELECT NOW()'); client.release().  A rejection reaches
\* the catch block before the release
TestQuery ==
  /\ db.pc = "testing"
  /\ \/ db' = Ended(db, "connect", "resolved")
     \/ db' = Ended([db EXCEPT !.leaked = @ + 1], "connect", "rejected")
  /\ UNCHANGED <<reconciler, calls, mig, lookup, sd>>

\* query(): without a pool it throws 'Database pool not initialized', else
\* pool.query resolves or rejects
Query ==
  /\ db.pc = "idle" /\ db.calls < MaxClientCalls
  /\ LET d == [db EXCEPT !.calls = @ + 1]
     IN  IF db.pool = "null"
           THEN db' = Ended(d, "query", "not initialized")
           ELSE \E outcome \in {"resolved", "rejected"} : db' = Ended(d, "query", outcome)
  /\ UNCHANGED <<reconciler, calls, mig, lookup, sd>>

\* getClient(): without a pool it throws 'Database pool not initialized', else
\* pool.connect() resolves or rejects
DbGetClient ==
  /\ db.pc = "idle" /\ db.calls < MaxClientCalls
  /\ LET d == [db EXCEPT !.calls = @ + 1]
     IN  IF db.pool = "null"
           THEN db' = Ended(d, "getClient", "not initialized")
           ELSE \E outcome \in {"resolved", "rejected"} : db' = Ended(d, "getClient", outcome)
  /\ UNCHANGED <<reconciler, calls, mig, lookup, sd>>

\* disconnect(): without a pool it warns and returns, else pool.end() starts
Disconnect ==
  /\ db.pc = "idle" /\ db.calls < MaxClientCalls
  /\ db' = IF db.pool = "null"
             THEN Ended([db EXCEPT !.calls = @ + 1], "disconnect", "not initialized")
             ELSE [db EXCEPT !.calls = @ + 1, !.pc = "ending"]
  /\ UNCHANGED <<reconciler, calls, mig, lookup, sd>>

\* await this.pool.end(); this.pool = null.  A rejection is rethrown and the
\* pool stays
PoolEnd ==
  /\ db.pc = "ending"
  /\ \/ db' = Ended([db EXCEPT !.pool = "null"], "disconnect", "resolved")
     \/ db' = Ended(db, "disconnect", "rejected")
  /\ UNCHANGED <<reconciler, calls, mig, lookup, sd>>

NextClient ==
  \/ Connect
  \/ PoolConnect
  \/ TestQuery
  \/ Query
  \/ DbGetClient
  \/ Disconnect
  \/ PoolEnd

\* the calls on one DatabaseClient, one after the other
SpecClient == InitConnectors /\ [][NextClient]_vars

(* ------------- GET /inventory/hosts/:id and /workloads/:id ------------- *)

\* a client asks for a host or a workload by id: by the id the Proxmox
\* connector has derived for it (of node pve1, of VM 100), or by any other id
LookupRequest ==
  /\ lookup.pc = "idle"
  /\ \E route \in {"host", "workload"}, derived \in BOOLEAN, byte6 \in 0..255, byte8 \in 0..255 :
       lookup' =
         [ lookup EXCEPT
             !.pc = "requested",
             !.route = route,
             !.origin = IF derived THEN "proxmox" ELSE "other",
             !.id = IF ~derived THEN plainUuid(byte6, byte8)
                    ELSE IF route = "host"
                      THEN deterministicUuid("proxmox-node:homelab:pve1", byte6, byte8)
                      ELSE deterministicUuid("proxmox-vm:pve1:100", byte6, byte8) ]
  /\ UNCHANGED <<reconciler, calls, mig, db, sd>>

\* getHostById / getWorkloadById of the routes: 400 when the id fails
\* isValidUUID, else the row is read: 404 without a row, 200 with it, 500 when
\* the read is rejected
GetByIdRoute ==
  /\ lookup.pc = "requested"
  /\ IF ~isValidUUID(lookup.id)
       THEN lookup' = [lookup EXCEPT !.pc = "responded", !.res = "400"]
       ELSE \E res \in {"200", "404", "500"} :
              lookup' = [lookup EXCEPT !.pc = "responded", !.res = res]
  /\ UNCHANGED <<reconciler, calls, mig, db, sd>>

NextLookup ==
  \/ LookupRequest
  \/ GetByIdRoute

\* one lookup by id
SpecLookup == InitConnectors /\ [][NextLookup]_vars

(* -------------------------- gracefulShutdown --------------------------- *)

\* startServer: db.connect() resolves, the connectors are initialised, the
\* interval is set and app.listen gives server its value; or db.connect()
\* rejects and the catch block exits with code 1.  sd.server is unset before,
\* sd.events keeps what the process has done on its way out.
StartServer ==
  /\ proc.alive /\ sd.server = "unset"
  /\ \/ /\ db' = [db EXCEPT !.pool = "set"]
        /\ sd' = [sd EXCEPT !.server = "listening"]
        /\ proc' = proc
     \/ /\ db' = [db EXCEPT !.pool = "set"]
        /\ sd' = [sd EXCEPT !.exit = "1", !.events = Append(@, "startup failed")]
        /\ proc' = [proc EXCEPT !.alive = FALSE]
  /\ UNCHANGED <<hosts, workloads, cyc, started, now, nextId, rd, syncIntervalMs,
                 proxmoxConnector, calls, mig, lookup>>

\* a shutdown that sets no timer
armForceTimer_never(s) == s

\* setTimeout(() => { process.exit(1) }, 10000)
armForceTimer(s) == [s EXCEPT !.timers = @ + 1]

\* SIGTERM or SIGINT: gracefulShutdown calls server.close(callback) and sets the
\* timer.  While server has no value the call throws, gracefulShutdown rejects
\* with nothing to handle it, and the process ends with code 1.
Signal ==
  /\ proc.alive /\ sd.signals < MaxSignals
  /\ LET got == [sd EXCEPT !.signals = @ + 1,
                           !.at = IF sd.signals = 0 THEN now ELSE @,
                           !.events = Append(@, "signal")]
     IN  IF sd.server = "unset"
           THEN /\ sd' = [got EXCEPT !.exit = "1", !.events = Append(@, "server.close threw")]
                /\ proc' = [proc EXCEPT !.alive = FALSE]
           ELSE /\ sd' = armForceTimer(
                           [got EXCEPT !.server = IF @ = "listening" THEN "closing" ELSE @,
                                       !.callbacks[sd.signals + 1] = "waiting"])
                /\ proc' = proc
  /\ UNCHANGED <<hosts, workloads, cyc, started, now, nextId, rd, syncIntervalMs,
                 proxmoxConnector, calls, mig, db, lookup>>

\* the server has stopped listening and its last connection has ended, that
\* of a sync request still being handled included: 'close' is emitted
ServerClosed ==
  /\ proc.alive /\ sd.server = "closing"
  /\ \A c \in Cycles : ~(cyc[c].origin = "api" /\ Running(c))
  /\ sd' = [sd EXCEPT !.server = "closed", !.events = Append(@, "HTTP server closed")]
  /\ UNCHANGED <<reconciler, calls, mig, db, lookup>>

\* the callback of server.close: await db.disconnect().  Without a pool
\* disconnect returns, and process.exit(0) follows; else pool.end() is awaited
CloseCallback(k) ==
  /\ proc.alive /\ sd.server = "closed" /\ sd.callbacks[k] = "waiting"
  /\ IF db.pool = "null"
       THEN /\ sd' = [sd EXCEPT !.callbacks[k] = "done", !.exit = "0",
                                !.events = @ \o <<"db.disconnect", "exit 0">>]
            /\ proc' = [proc EXCEPT !.alive = FALSE]
       ELSE /\ sd' = [sd EXCEPT !.callbacks[k] = "ending",
                                !.events = Append(@, "db.disconnect")]
            /\ proc' = proc
  /\ UNCHANGED <<hosts, workloads, cyc, started, now, nextId, rd, syncIntervalMs,
                 proxmoxConnector, calls, mig, db, lookup>>

\* pool.end() settles: this.pool = null, or the rejection is rethrown by
\* disconnect and caught by the callback; process.exit(0) either way
PoolEnded(k) ==
  /\ proc.alive /\ sd.callbacks[k] = "ending"
  /\ \E ended \in BOOLEAN :
       /\ db' = IF ended THEN [db EXCEPT !.pool = "null"] ELSE db
       /\ sd' = [sd EXCEPT !.callbacks[k] = "done", !.exit = "0",
                           !.events = @ \o <<IF ended THEN "pool ended" ELSE "pool.end rejected",
                                             "exit 0">>]
  /\ proc' = [proc EXCEPT !.alive = FALSE]
  /\ UNCHANGED <<hosts, workloads, cyc, started, now, nextId, rd, syncIntervalMs,
                 proxmoxConnector, calls, mig, lookup>>

\* the timer of gracefulShutdown is due: process.exit(1)
ForceExit ==
  /\ proc.alive /\ sd.timers > 0
  /\ sd' = [sd EXCEPT !.exit = "1", !.events = Append(@, "forced")]
  /\ proc' = [proc EXCEPT !.alive = FALSE]
  /\ UNCHANGED <<hosts, workloads, cyc, started, now, nextId, rd, syncIntervalMs,
                 proxmoxConnector, calls, mig, db, lookup>>

\* one cycle of a server that is started and shut down: the interval fires
\* once it is set, requests arrive while a connection is open, and a cycle
\* goes on as long as the process lives
NextShutdown ==
  \/ StartServer
  \/ sd.server # "unset" /\ started = 0 /\ TimerTick
  \/ sd.server \in {"listening", "closing"} /\ started = 0 /\ SyncRequest
  \/ proc.alive /\ CycleStep
  \/ Signal
  \/ ServerClosed
  \/ \E k \in 1..MaxSignals : CloseCallback(k)
  \/ \E k \in 1..MaxSignals : PoolEnded(k)
  \/ ForceExit

\* the event loop runs a timer that is due
SpecShutdown == Init /\ [][NextShutdown]_vars /\ WF_vars(ForceExit)

(* ------------------- what POST /inventory/sync answers ----------------- *)

\* res.json({data: {synced: true, hosts_count, workloads_count, timestamp}})
SyncResponse(rec) ==
  [ status          |-> 200,
    synced          |-> TRUE,
    hosts_count     |-> Len(rec.merged.hosts),
    workloads_count |-> Len(rec.merged.workloads) ]

\* res.status(500).json({error: error.message}): the message of the rejection
\* the handler has caught, that of a discoverAll call or that of db.transaction
ErrorResponse(rec) ==
  [ status |-> 500,
    error  |-> IF rec.k8s = "err" THEN "Kubernetes discovery failed"
               ELSE IF rec.pve = "err" THEN "Proxmox discovery failed"
               ELSE "store statement failed" ]

\* what the handler of cycle c has sent
Response(rec) ==
  IF rec.res = "200" THEN SyncResponse(rec)
  ELSE IF rec.res = "500" THEN ErrorResponse(rec)
  ELSE [status |-> 0]

(* ------------------------------- claims -------------------------------- *)

Ids(list) == {list[j].id : j \in 1..Len(list)}

\* the rows cycles have inserted for the entity with the discovered id key
InsertedFor(rows, key) == {r \in rows : r.key = key /\ r.born # 0}

\* the rows that exist for the entity with the discovered id key
RowsFor(rows, key) == {r \in rows : r.key = key}

\* every started cycle ran alone and none has failed
Sequential == \A c \in Cycles : cyc[c].solo /\ cyc[c].pc # "failed"

\* cycle c ran alone, right after cycle c - 1, which ran alone too, and both
\* have succeeded
Consecutive(c) ==
  /\ c - 1 \in Cycles
  /\ cyc[c - 1].pc = "done" /\ cyc[c - 1].solo
  /\ cyc[c].pc = "done" /\ cyc[c].solo

\* C1: over any sequence of successful cycles every discovered Host or Workload
\* id is inserted at most once: a cycle that discovers an entity an earlier
\* cycle has persisted updates its row and inserts none.
C1_InsertedAtMostOnce ==
  Sequential =>
    /\ \A key \in {"h1", "h2"} : Cardinality(InsertedFor(hosts, key)) <= 1
    /\ \A key \in {"w1", "w2"} : Cardinality(InsertedFor(workloads, key)) <= 1

\* C2: when a store statement fails after some of a cycle's writes, the cycle
\* reports failure and none of its writes is left in hosts or workloads.
C2_FailedCycleLeavesNoWrite ==
  \A c \in Cycles :
    (cyc[c].pc = "failed" /\ cyc[c].cause = "store" /\ cyc[c].solo /\ started = c) =>
      /\ \A r \in hosts : r.by # c
      /\ \A r \in workloads : r.by # c

\* C3: what GET /inventory answers holds, of the writes of a cycle, none or all.
C3_ReaderSeesNoneOrAll ==
  (rd.pc = "responded" /\ rd.res = "200") =>
    \A c \in Cycles :
      LET seen == Cardinality({r \in rd.hosts : r.by = c})
                    + Cardinality({r \in rd.workloads : r.by = c})
      IN  seen = 0 \/ seen = Len(cyc[c].merged.hosts) + Len(cyc[c].merged.workloads)

\* C4: at most one cycle is running at a time: no cycle is inside its
\* transaction while another cycle is inside its own.
C4_AtMostOneCycleRunning ==
  Cardinality({c \in Cycles : Running(c) /\ cyc[c].tx = "open"}) <= 1

\* C5: a cycle in which one source's discovery fails and the other source
\* answers entities is not aborted: it goes on to persist those entities.
C5_SourceFailureDoesNotAbort ==
  \A c \in Cycles :
    ~ /\ cyc[c].pc = "failed"
      /\ cyc[c].cause = "discovery"
      /\ \/ cyc[c].k8s = "ok" /\ cyc[c].k8sInv # EmptyInventory
         \/ cyc[c].pve = "ok" /\ cyc[c].pveInv # EmptyInventory

\* C6: reconciling the same snapshot twice in a row adds nothing the second
\* time, updates every entity of the snapshot, and bumps updated_at of every
\* row of an observed entity.
C6_SecondReconcileAddsNothing ==
  \A c \in Cycles :
    (Consecutive(c) /\ cyc[c].merged = cyc[c - 1].merged) =>
      /\ cyc[c].stats.hostsAdded = 0
      /\ cyc[c].stats.workloadsAdded = 0
      /\ cyc[c].stats.hostsUpdated = Len(cyc[c].merged.hosts)
      /\ cyc[c].stats.workloadsUpdated = Len(cyc[c].merged.workloads)
      /\ \A r \in hosts : r.key \in Ids(cyc[c].merged.hosts) => r.updated_at >= cyc[c].at
      /\ \A r \in workloads :
           r.key \in Ids(cyc[c].merged.workloads) => r.updated_at >= cyc[c].at

\* C7: a Host persisted by one cycle as online and discovered by the next cycle
\* as offline has exactly one row afterwards: the row of the earlier cycle
\* (created before the later cycle), with status offline and updated_at advanced.
C7_StatusFlipKeepsOneRow ==
  \A c \in Cycles :
    ( /\ Consecutive(c)
      /\ cyc[c - 1].merged.hosts # <<>> /\ cyc[c - 1].merged.hosts[1] = [id |-> "h1", ver |-> "a"]
      /\ cyc[c].merged.hosts # <<>> /\ cyc[c].merged.hosts[1] = [id |-> "h1", ver |-> "b"] ) =>
      /\ Cardinality(RowsFor(hosts, "h1")) = 1
      /\ \A r \in RowsFor(hosts, "h1") :
           /\ r.status = "offline"
           /\ r.created_at < cyc[c].at
           /\ r.updated_at >= cyc[c].at
           /\ r.updated_at > r.created_at

\* the entities of cycle c's snapshot whose write is done
DoneHosts(c) ==
  IF cyc[c].pc = "hosts" THEN SubSeq(cyc[c].merged.hosts, 1, cyc[c].i - 1)
  ELSE IF cyc[c].tx = "none" THEN <<>>
  ELSE IF cyc[c].pc \in {"workloads", "commit", "done"} THEN cyc[c].merged.hosts
  ELSE <<>>

DoneWorkloads(c) ==
  IF cyc[c].pc = "workloads" THEN SubSeq(cyc[c].merged.workloads, 1, cyc[c].i - 1)
  ELSE IF cyc[c].tx = "none" THEN <<>>
  ELSE IF cyc[c].pc \in {"commit", "done"} THEN cyc[c].merged.workloads
  ELSE <<>>

\* C8: when a cycle has observed an entity that already had a row, the row holds
\* the discovered value of every mutable field (hosts: name, type, cluster,
\* addresses, status, last_seen_at, tags, metadata; workloads: name, type,
\* host_id, namespace, status, health_status, spec, metadata, last_updated_at).
C8_UpdateReplacesEveryMutableField ==
  \A c \in Cycles :
    /\ \A j \in 1..Len(DoneHosts(c)) :
         LET e == DoneHosts(c)[j]
             d == DiscoveredHost(e.id, e.ver, cyc[c].at)
         IN  \A r \in hosts :
               (r.id = e.id /\ r.by = c) =>
                 /\ r.name = d.name /\ r.type = d.type /\ r.cluster = d.cluster
                 /\ r.addresses = d.addresses /\ r.status = d.status
                 /\ r.last_seen_at = d.last_seen_at /\ r.tags = d.tags
                 /\ r.metadata = d.metadata
    /\ \A j \in 1..Len(DoneWorkloads(c)) :
         LET e == DoneWorkloads(c)[j]
             d == DiscoveredWorkload(e.id, e.ver, cyc[c].at)
         IN  \A r \in workloads :
               (r.id = e.id /\ r.by = c) =>
                 /\ r.name = d.name /\ r.type = d.type /\ r.host_id = d.host_id
                 /\ r.namespace = d.namespace /\ r.status = d.status
                 /\ r.health_status = d.health_status /\ r.spec = d.spec
                 /\ r.metadata = d.metadata /\ r.last_updated_at = d.last_updated_at

\* the cycles whose record changes in a step: the cycle that takes the step
Stepping(c) == cyc'[c] # cyc[c] /\ Running(c)

\* C9: a step of a cycle deletes no row (every id stays in its table) and
\* changes a row only if the row's id is in the snapshot of that cycle.
C9_NoDeleteNoForeignChange ==
  [][ /\ \A r \in hosts :
           /\ \E r2 \in hosts' : r2.id = r.id
           /\ r \in hosts' \/ \E c \in Cycles : Stepping(c) /\ r.id \in Ids(cyc[c].merged.hosts)
      /\ \A r \in workloads :
           /\ \E r2 \in workloads' : r2.id = r.id
           /\ r \in workloads' \/
                \E c \in Cycles : Stepping(c) /\ r.id \in Ids(cyc[c].merged.workloads)
    ]_vars

\* a cycle has written and finished while a row of an entity it did not discover
\* still shows the status stored before
C9_Witness ==
  \E c \in Cycles :
    /\ cyc[c].pc = "done"
    /\ cyc[c].stats.hostsUpdated + cyc[c].stats.hostsAdded >= 1
    /\ \E r \in hosts : r.id \notin Ids(cyc[c].merged.hosts) /\ r.by # c /\ r.status = "online"
    /\ \E r \in hosts : r.by = c

\* C10: the step in which a scheduled cycle fails only logs: it writes nothing,
\* starts no cycle, leaves the timer armed and the process running; a failed
\* cycle takes no further step.
C10_ScheduledFailureOnlyLogs ==
  [][ \A c \in Cycles :
        cyc[c].origin = "timer" =>
          /\ cyc[c].pc = "failed" => cyc'[c] = cyc[c]
          /\ (cyc[c].pc # "failed" /\ cyc'[c].pc = "failed") =>
               /\ proc' = proc /\ proc'.timerArmed /\ proc'.alive
               /\ hosts' = hosts /\ workloads' = workloads
               /\ started' = started
    ]_vars

\* a scheduled cycle has failed on a store error and the next tick has started
\* a cycle
C10_Witness ==
  \E c, d \in Cycles :
    /\ c < d
    /\ cyc[c].origin = "timer" /\ cyc[c].pc = "failed" /\ cyc[c].cause = "store"
    /\ cyc[d].origin = "timer" /\ cyc[d].solo /\ cyc[d].at > cyc[c].at /\ cyc[d].pc = "done"

\* C11: with a sync interval of zero or less the timer is never armed and no
\* cycle is started by it, every cycle comes from a sync request; with a
\* positive interval the timer stays armed and a tick starts a cycle whatever
\* the earlier cycles are doing.
C11_TimerOnlyIfPositiveInterval ==
  /\ syncIntervalMs <= 0 =>
       /\ ~proc.timerArmed
       /\ \A c \in Cycles : cyc[c].origin \in {"none", "api"}
       /\ ~ENABLED TimerTick
  /\ syncIntervalMs > 0 =>
       /\ proc.timerArmed
       /\ started < MaxCycles => ENABLED TimerTick

\* the interval is negative and a sync request has run a cycle to its end
C11_Witness ==
  /\ syncIntervalMs < 0
  /\ \E c \in Cycles : cyc[c].origin = "api" /\ cyc[c].pc = "done"
  /\ started = MaxCycles

C13_SyncMergesAndCounts ==
  /\ [](\A c \in Cycles :
          (cyc[c].origin = "api" /\ cyc[c].pc \notin {"idle", "discover", "failed"}) =>
            /\ cyc[c].merged.hosts = cyc[c].k8sInv.hosts \o cyc[c].pveInv.hosts
            /\ cyc[c].merged.workloads = cyc[c].k8sInv.workloads \o cyc[c].pveInv.workloads)
  /\ [](\A c \in Cycles :
          (cyc[c].origin = "api" /\ cyc[c].pc = "done") =>
            Response(cyc[c]) =
              [ status          |-> 200,
                synced          |-> TRUE,
                hosts_count     |-> Len(cyc[c].k8sInv.hosts) + Len(cyc[c].pveInv.hosts),
                workloads_count |->
                  Len(cyc[c].k8sInv.workloads) + Len(cyc[c].pveInv.workloads) ])
  /\ [][\A c \in Cycles :
          cyc[c].pc \notin {"idle", "discover"} =>
            /\ cyc'[c].pc \notin {"idle", "discover"}
            /\ cyc'[c].pc = "getClient" => cyc[c].pc = "getClient"
            /\ cyc'[c].merged = cyc[c].merged]_vars

\* a sync request has succeeded on a snapshot in which both sources report a
\* host under id h1: the answer counts both
C13_Witness ==
  /\ cyc[1].origin = "api" /\ cyc[1].pc = "done" /\ cyc[1].res = "200"
  /\ Ids(cyc[1].k8sInv.hosts) \cap Ids(cyc[1].pveInv.hosts) # {}
  /\ Response(cyc[1]).hosts_count = 2

\* the store held a row under an id of cycle c's snapshot before the run
HeldBefore(c) ==
  \/ \E r \in hosts : r.born = 0 /\ r.id \in Ids(cyc[c].merged.hosts)
  \/ \E r \in workloads : r.born = 0 /\ r.id \in Ids(cyc[c].merged.workloads)

\* the ids of the list are pairwise distinct
Distinct(list) == Cardinality(Ids(list)) = Len(list)

\* C14: a cycle that succeeds has counted every host of its snapshot once, as
\* added or as updated, and every workload likewise; when the ids of the
\* snapshot are pairwise distinct and the store held none of them, all are
\* counted as added (2 hosts/3 workloads of Kubernetes with 1 host/2 workloads
\* of Proxmox: hostsAdded = 3, workloadsAdded = 5).
C14_StatsCountSnapshot ==
  \A c \in Cycles :
    cyc[c].pc = "done" =>
      /\ cyc[c].stats.hostsAdded + cyc[c].stats.hostsUpdated = Len(cyc[c].merged.hosts)
      /\ cyc[c].stats.workloadsAdded + cyc[c].stats.workloadsUpdated
           = Len(cyc[c].merged.workloads)
      /\ ( /\ Distinct(cyc[c].merged.hosts) /\ Distinct(cyc[c].merged.workloads)
           /\ ~HeldBefore(c) ) =>
             /\ cyc[c].stats.hostsAdded = Len(cyc[c].merged.hosts)
             /\ cyc[c].stats.workloadsAdded = Len(cyc[c].merged.workloads)

\* the scenario: 2 hosts/3 workloads and 1 host/2 workloads reconciled against
\* an empty store
C14_Witness ==
  /\ cyc[1].pc = "done"
  /\ Len(cyc[1].k8sInv.hosts) = 2 /\ Len(cyc[1].k8sInv.workloads) = 3
  /\ Len(cyc[1].pveInv.hosts) = 1 /\ Len(cyc[1].pveInv.workloads) = 2
  /\ ~HeldBefore(1)
  /\ cyc[1].stats = [hostsAdded |-> 3, hostsUpdated |-> 0,
                     workloadsAdded |-> 5, workloadsUpdated |-> 0]

\* the orders in which n entities can be listed
Orders(n) == {f \in [1..n -> 1..n] : \A i, j \in 1..n : f[i] = f[j] => i = j}

Reordered(list, f) == [j \in 1..Len(list) |-> list[f[j]]]

\* rows without the values the store generates: the id of an inserted row,
\* created_at and updated_at
Discovered(rows) ==
  { [r EXCEPT !.id = IF r.born = 0 THEN r.id ELSE "generated",
              !.created_at = 0,
              !.updated_at = 0] : r \in rows }

\* the tables as they were before the one cycle of the run
HostsBefore == IF \E r \in hosts : r.born = 0 THEN Seeded.hosts ELSE {}

WorkloadsBefore == IF \E r \in workloads : r.born = 0 THEN Seeded.workloads ELSE {}

\* the reconcile of cycle 1 has ended as the loops run to their end say, and
\* every other order of the hosts and of the workloads of its snapshot would
\* have left the same stats and, generated values aside, the same rows
AnyOrderSameResult ==
  LET whole == reconcile(HostsBefore, WorkloadsBefore, 0, cyc[1].merged, cyc[1].at, now, 1)
  IN  /\ whole.hosts = hosts /\ whole.workloads = workloads
      /\ whole.stats = cyc[1].stats
      /\ \A f \in Orders(Len(cyc[1].merged.hosts)) :
           LET other == reconcile(HostsBefore, {}, 0,
                                  [ hosts     |-> Reordered(cyc[1].merged.hosts, f),
                                    workloads |-> <<>> ], cyc[1].at, now, 1)
           IN  /\ Discovered(other.hosts) = Discovered(hosts)
               /\ other.stats.hostsAdded = cyc[1].stats.hostsAdded
               /\ other.stats.hostsUpdated = cyc[1].stats.hostsUpdated
      /\ \A f \in Orders(Len(cyc[1].merged.workloads)) :
           LET other == reconcile({}, WorkloadsBefore, 0,
                                  [ hosts     |-> <<>>,
                                    workloads |-> Reordered(cyc[1].merged.workloads, f) ],
                                  cyc[1].at, now, 1)
           IN  /\ Discovered(other.workloads) = Discovered(workloads)
               /\ other.stats.workloadsAdded = cyc[1].stats.workloadsAdded
               /\ other.stats.workloadsUpdated = cyc[1].stats.workloadsUpdated

\* C15 as stated: for every snapshot, the rows in the store and the stats after
\* the reconcile are the same for every order of its hosts and of its workloads.
C15_AnyOrderSameResult ==
  cyc[1].pc = "done" => AnyOrderSameResult

\* C15: for every snapshot whose host ids and whose workload ids are pairwise
\* distinct, the stats and, generated ids and timestamps aside, the rows in
\* the store after the reconcile are the same for every order of its hosts and
\* of its workloads.
C15_DistinctIdsAnyOrderSameResult ==
  ( /\ cyc[1].pc = "done"
    /\ Distinct(cyc[1].merged.hosts) /\ Distinct(cyc[1].merged.workloads) ) =>
      AnyOrderSameResult

\* a reconcile of three workloads with distinct ids has updated the row of one
\* and inserted the other two
C15_Witness ==
  /\ cyc[1].pc = "done"
  /\ Distinct(cyc[1].merged.hosts) /\ Distinct(cyc[1].merged.workloads)
  /\ Len(cyc[1].merged.workloads) >= 3
  /\ cyc[1].stats.workloadsUpdated = 1 /\ cyc[1].stats.workloadsAdded >= 2

\* C16: a failed listing of the deployments, statefulsets or pods of a
\* namespace never makes discoverAll reject (it rejects only when listNode or
\* listNamespace fails); when discoverAll resolves, its workloads are those of
\* every kind and namespace whose listing succeeded, and no others.
C16_NamespaceFailureTolerated ==
  /\ k8sCall.pc = "rejected" => k8sCall.cause \in {"listNode", "listNamespace"}
  /\ k8sCall.pc = "resolved" =>
       Ids(k8sCall.result.workloads) =
         { ClusterItems(l[1], l[2])[1].uid :
             l \in { m \in WorkloadKinds \X {"default", "apps"} :
                       m[2] \notin k8sCall.lists[m[1]].failed } }

\* discoverAll has resolved although the pods of namespace default could not
\* be listed, with the pod of apps and the deployment of default
C16_Witness ==
  /\ k8sCall.pc = "resolved"
  /\ k8sCall.lists["k8s-pod"].failed = {"default"}
  /\ {"k8s-pod/apps", "k8s-deployment/default"} \subseteq Ids(k8sCall.result.workloads)
  /\ "k8s-pod/default" \notin Ids(k8sCall.result.workloads)

\* kind, node and vmid of every VM and container of the nodes
AllGuests ==
  UNION { {<<"proxmox-vm", ProxmoxNodes[n], NodeVMs(ProxmoxNodes[n])[j]>> :
             j \in 1..Len(NodeVMs(ProxmoxNodes[n]))}
          \cup {<<"proxmox-lxc", ProxmoxNodes[n], NodeLXCs(ProxmoxNodes[n])[j]>> :
                  j \in 1..Len(NodeLXCs(ProxmoxNodes[n]))}
          : n \in 1..Len(ProxmoxNodes) }

\* C17 as stated: a failed request for the VMs or the containers of a node
\* never makes discoverAll reject (it rejects only when getNodes fails), and a
\* call that resolves answers every host and the guests of every node whose
\* requests succeeded.
C17_NodeFailureTolerated ==
  /\ pveCall.pc = "rejected" => pveCall.cause = "getNodes"
  /\ pveCall.pc = "resolved" =>
       /\ {pveCall.result.hosts[j].name : j \in 1..Len(pveCall.result.hosts)}
            = {ProxmoxNodes[n] : n \in 1..Len(ProxmoxNodes)}
       /\ { <<pveCall.result.workloads[j].type, pveCall.result.workloads[j].namespace,
               pveCall.result.workloads[j].spec.vmid>> :
               j \in 1..Len(pveCall.result.workloads) }
            = AllGuests

\* C18: whatever two discoverAll calls of a connector for one cluster see of a
\* node, a VM or a container (status, name, resource figures, address), the
\* host of a node name has the same id in both answers, and so has the
\* workload of a kind, a node and a vmid.
C18_IdDependsOnNaturalKeyOnly ==
  pveCall.pc = "resolved" =>
    /\ \A j \in 1..Len(pveCall.previous.hosts), k \in 1..Len(pveCall.result.hosts) :
         pveCall.previous.hosts[j].name = pveCall.result.hosts[k].name =>
           pveCall.previous.hosts[j].id = pveCall.result.hosts[k].id
    /\ \A j \in 1..Len(pveCall.previous.workloads), k \in 1..Len(pveCall.result.workloads) :
         LET a == pveCall.previous.workloads[j]
             b == pveCall.result.workloads[k]
         IN  (a.type = b.type /\ a.namespace = b.namespace /\ a.spec.vmid = b.spec.vmid) =>
               a.id = b.id

\* two calls have answered: node pve1 online, then offline; VM 100 running as
\* web, then stopped without a name; container 200 with one address, then with
\* two others
C18_Witness ==
  /\ pveCall.pc = "resolved" /\ pveCall.calls = 2
  /\ Len(pveCall.previous.workloads) = 3 /\ Len(pveCall.result.workloads) = 3
  /\ pveCall.previous.hosts[1].status = "online" /\ pveCall.result.hosts[1].status = "offline"
  /\ pveCall.previous.workloads[1].name = "web" /\ pveCall.result.workloads[1].name = "vm-100"
  /\ pveCall.previous.workloads[1].status # pveCall.result.workloads[1].status
  /\ pveCall.previous.workloads[1].id = pveCall.result.workloads[1].id
  /\ pveCall.previous.workloads[2].spec.addresses = {<<"lan", "192.168.1.100">>}
  /\ pveCall.result.workloads[2].spec.addresses
       = {<<"lan", "192.168.1.101">>, <<"net2", "10.0.0.5">>}
  /\ pveCall.previous.workloads[2].id = pveCall.result.workloads[2].id

\* C19: every cycle that has started ends, done or failed, also when a source
\* never answers.
C19_EveryCycleFinishes ==
  \A c \in Cycles : (cyc[c].pc # "idle") ~> (cyc[c].pc \in {"done", "failed"})

\* the statements of the call are BEGIN first and nothing of the callback
\* before it; a call that has resolved has sent COMMIT last, with success, and
\* returns the callback's result; once BEGIN, the callback or COMMIT has
\* rejected, the call does not resolve, and when it has ended ROLLBACK was the
\* last statement sent
TransactionProtocol ==
  /\ \A j \in 1..Len(txCall.sent) : txCall.sent[j] = "BEGIN" <=> j = 1
  /\ txCall.pc = "resolved" =>
       /\ txCall.sent = IF txCall.callback = "testConnection"
                          THEN <<"BEGIN", "SELECT", "COMMIT">>
                          ELSE <<"BEGIN", "COMMIT">>
       /\ txCall.failed = "none"
       /\ txCall.result = "result of the callback"
  /\ txCall.failed \in {"BEGIN", "callback", "COMMIT"} =>
       /\ txCall.pc \in {"rollback", "rejected"}
       /\ txCall.pc = "rejected" => txCall.sent[Len(txCall.sent)] = "ROLLBACK"
  /\ \A j \in 1..Len(txCall.outcomes) :
       txCall.outcomes[j].pc = "resolved" => txCall.outcomes[j].thrown = "none"

\* C20 as stated: BEGIN before the callback, COMMIT and the callback's result
\* when it resolves, and when BEGIN, the callback or COMMIT rejects, ROLLBACK
\* and a rejection with that error; no success without COMMIT.
C20_RollbackAndRethrow ==
  /\ TransactionProtocol
  /\ (txCall.pc = "rejected" /\ txCall.failed \in {"BEGIN", "callback", "COMMIT"}) =>
       txCall.thrown = txCall.failed

\* C20: BEGIN before the callback, COMMIT and the callback's result when it
\* resolves, and when BEGIN, the callback or COMMIT rejects, ROLLBACK and a
\* rejection: with that error when ROLLBACK succeeds, with the error of
\* ROLLBACK when ROLLBACK rejects too; no success without COMMIT.
C20_RollbackAndReject ==
  /\ TransactionProtocol
  /\ (txCall.pc = "rejected" /\ txCall.failed \in {"BEGIN", "callback", "COMMIT"}) =>
       txCall.thrown = IF txCall.rollback = "ok" THEN txCall.failed ELSE "ROLLBACK"

\* after a call that has committed, a call whose COMMIT was rejected has sent
\* ROLLBACK and has rejected with the error of COMMIT
C20_Witness ==
  /\ txCall.pc = "rejected" /\ txCall.failed = "COMMIT" /\ txCall.thrown = "COMMIT"
  /\ txCall.sent = <<"BEGIN", "SELECT", "COMMIT", "ROLLBACK">>
  /\ txCall.outcomes = <<[pc |-> "resolved", thrown |-> "none"]>>

\* the migrations of the directory
AllMigrations == loadMigrationFiles(mig.listing)

\* C21: a migration's row is in schema_migrations if and only if its changes
\* are committed, at every moment and so after migrate() has returned or
\* failed; a migration that has failed has left neither changes nor row, and
\* nothing stays uncommitted in a transaction.
C21_MigrationAtomicWithRecord ==
  /\ \A j \in 1..Len(AllMigrations) :
       MigrationRow(AllMigrations[j]) \in mig.schema_migrations
         <=> AllMigrations[j].file \in mig.schema
  /\ mig.pc \in {"returned", "failed"} => mig.staged = NothingStaged
  /\ (mig.pc = "failed" /\ mig.failedAt \in {"getClient", "BEGIN", "sql", "INSERT", "COMMIT"}) =>
       /\ mig.pending[mig.i].file \notin mig.schema
       /\ MigrationRow(mig.pending[mig.i]) \notin mig.schema_migrations

\* a run has applied the first migration and has failed in the second after
\* its statements had run: the first is there with its row, the second is not
C21_Witness ==
  /\ mig.pc = "failed" /\ mig.failedAt = "COMMIT"
  /\ Len(mig.applied) = 1 /\ mig.i = 2
  /\ mig.applied[1].file \in mig.schema
  /\ mig.schema_migrations = {MigrationRow(mig.applied[1])}
  /\ mig.pending[2].file \notin mig.schema

\* C22: a run has applied, in the order of the files, the migrations whose
\* version was not recorded when it started: all of them when it returns,
\* those before the one that failed when it fails; no version is committed
\* twice over the runs; and a run right after a run that returned applies
\* nothing.
C22_OnlyPendingAppliedOnce ==
  LET unrecorded ==
        SelectSeq(AllMigrations, LAMBDA m : m.version \notin mig.appliedMigrations)
      looping == mig.pc \in {"getClient", "BEGIN", "sql", "INSERT", "COMMIT", "ROLLBACK"}
  IN  /\ mig.pc = "returned" => mig.applied = unrecorded
      /\ (looping \/ (mig.pc = "failed" /\ mig.failedAt
                        \in {"getClient", "BEGIN", "sql", "INSERT", "COMMIT"})) =>
           mig.applied = SubSeq(unrecorded, 1, mig.i - 1)
      /\ (mig.pc = "failed" /\ mig.failedAt
            \in {"connect", "ensureMigrationsTable", "getAppliedMigrations"}) =>
           mig.applied = <<>>
      /\ \A j, k \in 1..Len(mig.commits) : mig.commits[j] = mig.commits[k] => j = k
      /\ mig.previous = "returned" => mig.applied = <<>> /\ ~looping

\* after a run that has returned with both migrations of the directory
\* committed, the third run has found nothing pending and has returned
C22_Witness ==
  /\ mig.runs = 3 /\ mig.pc = "returned" /\ mig.previous = "returned"
  /\ mig.applied = <<>> /\ mig.pending = <<>>
  /\ mig.commits = <<1, 2>>
  /\ Cardinality(mig.schema) = 2

\* C23: in every inventory discoverAll of the Proxmox connector returns, the
\* host_id of each workload is the id of a host of the same inventory, the one
\* host of the node the workload was listed under.
C23_WorkloadLinkedToItsHost ==
  pveCall.pc = "resolved" =>
    \A j \in 1..Len(pveCall.result.workloads) :
      LET w == pveCall.result.workloads[j]
          under == {k \in 1..Len(pveCall.result.hosts) : pveCall.result.hosts[k].name = w.spec.node}
      IN  /\ Cardinality(under) = 1
          /\ \A k \in 1..Len(pveCall.result.hosts) :
               pveCall.result.hosts[k].id = w.host_id <=> k \in under

\* an inventory with the VM and the container of pve1 linked to the first
\* host and the VM of pve2 linked to the second
C23_Witness ==
  /\ pveCall.pc = "resolved" /\ pveCall.cluster = "homelab"
  /\ Len(pveCall.result.workloads) = 3
  /\ pveCall.result.workloads[1].host_id = pveCall.result.hosts[1].id
  /\ pveCall.result.workloads[2].host_id = pveCall.result.hosts[1].id
  /\ pveCall.result.workloads[2].type = "proxmox-lxc"
  /\ pveCall.result.workloads[3].host_id = pveCall.result.hosts[2].id
  /\ pveCall.result.hosts[1].id # pveCall.result.hosts[2].id

\* the containers of the inventory the call has returned
ReturnedLXCs ==
  SelectSeq(pveCall.result.workloads, LAMBDA w : w.type = "proxmox-lxc")

\* C24: when discoverAll has returned, the config requests of the call are one
\* for every container that is running and none for any other container, and
\* a container that is not running has no address.
C24_ConfigOnlyForRunning ==
  pveCall.pc = "resolved" =>
    /\ \A j \in 1..Len(ReturnedLXCs) :
         LET w == ReturnedLXCs[j]
             asked == {k \in 1..Len(pveCall.requested) :
                         /\ pveCall.requested[k].node = w.spec.node
                         /\ pveCall.requested[k].vmid = w.spec.vmid}
         IN  /\ w.status = "running" => Cardinality(asked) = 1
             /\ w.status # "running" => asked = {} /\ w.spec.addresses = {}
    /\ Len(pveCall.requested) <= Len(ReturnedLXCs)

\* the first call has fetched the config of container 200, which was running;
\* the second has found it stopped and has asked for nothing
C24_Witness ==
  /\ pveCall.pc = "resolved" /\ pveCall.calls = 2
  /\ Len(pveCall.previous.workloads) = 3 /\ Len(pveCall.result.workloads) = 3
  /\ pveCall.previous.workloads[2].status = "running"
  /\ pveCall.previous.workloads[2].spec.addresses # {}
  /\ pveCall.result.workloads[2].status = "stopped"
  /\ pveCall.result.workloads[2].spec.addresses = {}
  /\ pveCall.requested = <<>>

\* the network interfaces of a config whose line carries an ip that is no
\* spelling of dhcp, each with that ip up to its first '/'
StaticInterfaces(config) ==
  { <<config.entries[k].key, config.entries[k].line[p].value[1]>> :
      <<k, p>> \in
        { kp \in (1..Len(config.entries)) \X (1..4) :
            /\ config.entries[kp[1]].key \in NetKeys
            /\ kp[2] <= Len(config.entries[kp[1]].line)
            /\ config.entries[kp[1]].line[kp[2]].key = "ip"
            /\ config.entries[kp[1]].line[kp[2]].value # <<>>
            /\ config.entries[kp[1]].line[kp[2]].value
                 \notin {<<"dhcp">>, <<"DHCP">>, <<"Dhcp">>} } }

\* C25: the address map of a running container has an entry for an interface
\* exactly when the line of the interface has an ip that is not dhcp in any
\* case; the value is the ip without its CIDR suffix, under lan for net0 and
\* under the key of the interface for the others; a request answered null or
\* with an empty config gives an empty map, and no answer makes discoverAll
\* reject.
C25_AddressesFromStaticIps ==
  /\ pveCall.pc = "resolved" =>
       \A k \in 1..Len(pveCall.requested) :
         LET r == pveCall.requested[k]
             static == StaticInterfaces(r.config)
         IN  \A j \in 1..Len(ReturnedLXCs) :
               LET w == ReturnedLXCs[j]
               IN  (w.spec.node = r.node /\ w.spec.vmid = r.vmid) =>
                     /\ w.spec.addresses =
                          { <<IF e[1] = "net0" THEN "lan" ELSE e[1], e[2]>> : e \in static }
                     /\ (~r.config.found \/ r.config.entries = <<>>) => w.spec.addresses = {}
  /\ pveCall.pc = "rejected" => pveCall.cause \in {"getNodes", "getVMs", "getLXCs"}

\* container 200 was answered net0 with a CIDR address, net1 with DHCP and net2
\* with a plain address; the call before, its request was answered null
C25_Witness ==
  /\ pveCall.pc = "resolved" /\ pveCall.calls = 2
  /\ Len(pveCall.previous.workloads) = 3 /\ Len(pveCall.result.workloads) = 3
  /\ Len(pveCall.requested) = 1
  /\ Len(pveCall.requested[1].config.entries) = 4
  /\ pveCall.result.workloads[2].spec.addresses
       = {<<"lan", "192.168.1.101">>, <<"net2", "10.0.0.5">>}
  /\ pveCall.previous.workloads[2].status = "running"
  /\ pveCall.previous.workloads[2].spec.addresses = {}

\* C28: a call of db.transaction that has got its client has released it
\* exactly once when it ends, however it ends, and the release is the last
\* thing done with the client; a call that is still running has not released
\* it, and a call that got no client releases none.
C28_ClientReleasedOnce ==
  LET releases == {j \in 1..Len(txCall.events) : txCall.events[j] = "release"}
  IN  /\ (txCall.pc \in {"resolved", "rejected"} /\ txCall.failed # "connect") =>
           /\ releases = {Len(txCall.events)}
           /\ txCall.client = "released"
      /\ txCall.pc \in {"begin", "callback", "commit", "rollback"} =>
           releases = {} /\ txCall.client = "held"
      /\ txCall.failed = "connect" => txCall.events = <<>> /\ txCall.client = "none"

\* a call whose callback has failed and whose ROLLBACK was rejected too has
\* released its client after the ROLLBACK
C28_Witness ==
  /\ txCall.pc = "rejected" /\ txCall.failed = "callback" /\ txCall.rollback = "err"
  /\ txCall.events = <<"BEGIN", "SELECT", "ROLLBACK", "release">>

\* C29: after a connect() that has failed the pool is null: a query() or a
\* getClient() that follows fails with 'Database pool not initialized', and a
\* connect() that follows tests the pool again and does not return as already
\* initialized.
C29_FailedConnectLeavesUninitialized ==
  /\ \A j \in 1..Len(db.history) :
       db.history[j] = [op |-> "connect", outcome |-> "rejected"] =>
         /\ (j = Len(db.history) /\ db.pc = "idle") => db.pool = "null"
         /\ j < Len(db.history) =>
              /\ db.history[j + 1].op \in {"query", "getClient"} =>
                   db.history[j + 1].outcome = "not initialized"
              /\ db.history[j + 1].op = "connect" =>
                   db.history[j + 1].outcome \in {"resolved", "rejected"}

\* C27: a lookup by an id the Proxmox connector has derived passes the format
\* check of the route: it is never answered with 400.
C27_DerivedIdPassesFormatCheck ==
  (lookup.pc = "responded" /\ lookup.origin = "proxmox") => lookup.res # "400"

\* where an event stands in the log of the shutdown, 0 when it is not there
EventAt(event) ==
  IF \E j \in 1..Len(sd.events) : sd.events[j] = event
    THEN CHOOSE j \in 1..Len(sd.events) :
           sd.events[j] = event /\ \A k \in 1..j - 1 : sd.events[k] # event
    ELSE 0

\* C26: a process that has exited with code 0 has been signalled, has then
\* closed the HTTP server, has then called db.disconnect and has then exited;
\* a signalled process that has exited otherwise has exited with code 1; and
\* a process that is signalled exits.
C26_ShutdownOrderAndExit ==
  /\ [](sd.exit = "0" =>
          /\ 0 < EventAt("signal")
          /\ EventAt("signal") < EventAt("HTTP server closed")
          /\ EventAt("HTTP server closed") < EventAt("db.disconnect")
          /\ EventAt("db.disconnect") < EventAt("exit 0")
          /\ EventAt("exit 0") = Len(sd.events))
  /\ []((sd.signals > 0 /\ ~proc.alive) => sd.exit \in {"0", "1"})
  /\ []((sd.exit = "1" /\ sd.signals > 0 /\ sd.server # "unset") => EventAt("forced") > 0)
  /\ (sd.signals > 0) ~> (~proc.alive)

\* the process was signalled while a cycle was writing, has closed the server,
\* ended the pool and exited with code 0
C26_Witness ==
  /\ sd.exit = "0" /\ ~proc.alive /\ db.pool = "null"
  /\ sd.events = <<"signal", "HTTP server closed", "db.disconnect", "pool ended", "exit 0">>
  /\ \E c \in Cycles : cyc[c].pc \in {"hosts", "workloads"}

\* C30: no scheduled cycle has started after the first shutdown signal, and
\* once the shutdown has disconnected the pool the process is gone, so that
\* no cycle issues a statement afterwards.
C30_NoCycleAfterShutdownBegan ==
  /\ sd.signals > 0 =>
       \A c \in Cycles : (cyc[c].origin = "timer" /\ cyc[c].pc # "idle") => cyc[c].at <= sd.at
  /\ (EventAt("pool ended") > 0) => ~proc.alive

====
